---- MODULE Spec2Model ----
(***************************************************************************)
(* Model of the corevsknots repository-health engine: the fork-origin      *)
(* classifier, the contribution aggregator, the Gini / bus-factor          *)
(* metrics, the per-category calculators, the overall health scorer and    *)
(* the two-repository comparison driver.                                   *)
(*                                                                         *)
(* Conventions.                                                            *)
(*  - Python None / a missing key / an empty string are all falsy to the   *)
(*    code paths modelled here; a string field that is absent is "".       *)
(*  - Optional[set] is a record [is_none, shas].                           *)
(*  - A commit message is a sequence of one-character strings, so that     *)
(*    str.lower(), the `in` substring test and re.match are computed       *)
(*    character by character.                                              *)
(*  - A Python float that the code derives by division is an exact         *)
(*    rational <<num, den>> (den > 0, lowest terms) until the code rounds  *)
(*    it; round(x, k) yields the integer x * 10^k (round-half-even).       *)
(*    Units are named in the definitions: deci = tenths, milli =           *)
(*    thousandths.                                                         *)
(***************************************************************************)
EXTENDS Integers, Sequences, FiniteSets, TLC

(***************************************************************************)
(* Bounds of the explored input space.                                     *)
(***************************************************************************)
\* longest commit list handed to the calculators
MaxCommits == 2
\* longest list of counts handed to calculate_gini_coefficient / bus factor
MaxValues == 4
\* largest small count in a list of counts (50, 30, 20, 10, 40 are added)
MaxCount == 2

(***************************************************************************)
(* Arithmetic helpers (Python int / float arithmetic, exact).              *)
(***************************************************************************)
Min(a, b) == IF a <= b THEN a ELSE b

Max(a, b) == IF a >= b THEN a ELSE b

Abs(a) == IF a < 0 THEN -a ELSE a

RECURSIVE Gcd(_, _)
Gcd(a, b) == IF b = 0 THEN a ELSE Gcd(b, a % b)

\* the rational n/d in lowest terms, d > 0
Rat(n, d) ==
  LET g == Gcd(Abs(n), d)
  IN  <<n \div g, d \div g>>

RatLeq(p, q) == p[1] * q[2] <= q[1] * p[2]

RatLess(p, q) == p[1] * q[2] < q[1] * p[2]

RatAdd(p, q) == Rat(p[1] * q[2] + q[1] * p[2], p[2] * q[2])

RatSub(p, q) == Rat(p[1] * q[2] - q[1] * p[2], p[2] * q[2])

RatMul(p, q) == Rat(p[1] * q[1], p[2] * q[2])

RatMax(p, q) == IF RatLeq(q, p) THEN p ELSE q

RatMin(p, q) == IF RatLeq(p, q) THEN p ELSE q

\* round(n/d * scale): the nearest integer, a tie going to the even one
RoundScaled(n, d, scale) ==
  LET x == n * scale
      q == x \div d
      r == x % d
  IN  IF 2 * r < d THEN q
      ELSE IF 2 * r > d THEN q + 1
      ELSE IF q % 2 = 0 THEN q ELSE q + 1

\* round(x, 1) and round(x, 3) of a rational x, in tenths and thousandths
Round1(p) == RoundScaled(p[1], p[2], 10)

Round3(p) == RoundScaled(p[1], p[2], 1000)

\* sum(s[lo..hi]), adding the two halves of the range
RECURSIVE SumRange(_, _, _)
SumRange(s, lo, hi) ==
  IF lo > hi THEN 0
  ELSE IF lo = hi THEN s[lo]
  ELSE LET mid == (lo + hi) \div 2
       IN  SumRange(s, lo, mid) + SumRange(s, mid + 1, hi)

\* sum(s)
SumSeq(s) == SumRange(s, 1, Len(s))

\* seq[:n]
Take(s, n) == SubSeq(s, 1, Min(n, Len(s)))

\* the elements of a sequence
Range(s) == {s[i] : i \in DOMAIN s}

(***************************************************************************)
(* Strings as character sequences.                                         *)
(***************************************************************************)
\* str.lower() on ASCII: the lower-case letter of every upper-case one
UpperToLower ==
  [A |-> "a", B |-> "b", C |-> "c", D |-> "d", E |-> "e", F |-> "f",
   G |-> "g", H |-> "h", I |-> "i", J |-> "j", K |-> "k", L |-> "l",
   M |-> "m", N |-> "n", O |-> "o", P |-> "p", Q |-> "q", R |-> "r",
   S |-> "s", T |-> "t", U |-> "u", V |-> "v", W |-> "w", X |-> "x",
   Y |-> "y", Z |-> "z"]

\* str.lower() of one character
LowerChar(c) == IF c \in DOMAIN UpperToLower THEN UpperToLower[c] ELSE c

\* str.lower()
Lower(s) == [i \in DOMAIN s |-> LowerChar(s[i])]

\* pat in s
Contains(pat, s) ==
  \E i \in 0..(Len(s) - Len(pat)) : \A k \in DOMAIN pat : s[i + k] = pat[k]

\* contributor.py:21-28, the literal patterns of core_merge_patterns
PatMergeCoreRef ==
  <<"M", "e", "r", "g", "e", " ", "b", "i", "t", "c", "o", "i", "n", "/", "b", "i", "t", "c", "o", "i", "n", "#">>
PatUpstreamMaster ==
  <<"M", "e", "r", "g", "e", " ", "r", "e", "m", "o", "t", "e", "-", "t", "r", "a", "c", "k", "i", "n", "g", " ", "b", "r", "a", "n", "c", "h", " ", "'", "u", "p", "s", "t", "r", "e", "a", "m", "/", "m", "a", "s", "t", "e", "r", "'">>
PatUpstreamMain ==
  <<"M", "e", "r", "g", "e", " ", "r", "e", "m", "o", "t", "e", "-", "t", "r", "a", "c", "k", "i", "n", "g", " ", "b", "r", "a", "n", "c", "h", " ", "'", "u", "p", "s", "t", "r", "e", "a", "m", "/", "m", "a", "i", "n", "'">>
PatMergePullRequest ==
  <<"M", "e", "r", "g", "e", " ", "p", "u", "l", "l", " ", "r", "e", "q", "u", "e", "s", "t", " ", "#", "\\", "d", "+", " ", "f", "r", "o", "m", " ", "b", "i", "t", "c", "o", "i", "n", "/", "b", "i", "t", "c", "o", "i", "n">>
PatSyncWith ==
  <<"S", "y", "n", "c", " ", "w", "i", "t", "h", " ", "b", "i", "t", "c", "o", "i", "n", "/", "b", "i", "t", "c", "o", "i", "n">>
ReMergeBranchHead ==
  <<"M", "e", "r", "g", "e", " ", "b", "r", "a", "n", "c", "h", " ", "'">>
ReMergeBranchTail ==
  <<"'", " ", "o", "f", " ", "h", "t", "t", "p", "s", ":", "/", "/", "g", "i", "t", "h", "u", "b", ".", "c", "o", "m", "/", "b", "i", "t", "c", "o", "i", "n", "/", "b", "i", "t", "c", "o", "i", "n", " ", "i", "n", "t", "o", " ">>
MsgRemoteTracking ==
  <<"M", "e", "r", "g", "e", " ", "r", "e", "m", "o", "t", "e", "-", "t", "r", "a", "c", "k", "i", "n", "g", " ", "b", "r", "a", "n", "c", "h", " ", "'", "u", "p", "s", "t", "r", "e", "a", "m", "/", "m", "a", "s", "t", "e", "r", "'", " ", "i", "n", "t", "o", " ", "f", "e", "a", "t", "u", "r", "e">>
MsgAddRpc ==
  <<"A", "d", "d", " ", "n", "e", "w", " ", "R", "P", "C", " ", "c", "o", "m", "m", "a", "n", "d">>
MsgMergeCoreRef ==
  <<"M", "e", "r", "g", "e", " ", "b", "i", "t", "c", "o", "i", "n", "/", "b", "i", "t", "c", "o", "i", "n", "#", "1", "2", "3">>
MsgWalletFix ==
  <<"w", "a", "l", "l", "e", "t", ":", " ", "f", "i", "x", " ", "r", "e", "s", "c", "a", "n", " ", "b", "u", "g">>
MsgMergePullRequest ==
  <<"M", "e", "r", "g", "e", " ", "p", "u", "l", "l", " ", "r", "e", "q", "u", "e", "s", "t", " ", "#", "1", "2", "3", " ", "f", "r", "o", "m", " ", "b", "i", "t", "c", "o", "i", "n", "/", "b", "i", "t", "c", "o", "i", "n">>
MsgSyncUpper ==
  <<"S", "Y", "N", "C", " ", "W", "I", "T", "H", " ", "B", "I", "T", "C", "O", "I", "N", "/", "B", "I", "T", "C", "O", "I", "N", " ", "m", "a", "s", "t", "e", "r">>
MsgMergeBranchOf ==
  <<"M", "e", "r", "g", "e", " ", "b", "r", "a", "n", "c", "h", " ", "'", "x", "'", " ", "o", "f", " ", "h", "t", "t", "p", "s", ":", "/", "/", "g", "i", "t", "h", "u", "b", ".", "c", "o", "m", "/", "b", "i", "t", "c", "o", "i", "n", "/", "b", "i", "t", "c", "o", "i", "n", " ", "i", "n", "t", "o", " ", "y">>
MsgRevertMergeBranchOf ==
  <<"R", "e", "v", "e", "r", "t", " ", "\"", "M", "e", "r", "g", "e", " ", "b", "r", "a", "n", "c", "h", " ", "'", "x", "'", " ", "o", "f", " ", "h", "t", "t", "p", "s", ":", "/", "/", "g", "i", "t", "h", "u", "b", ".", "c", "o", "m", "/", "b", "i", "t", "c", "o", "i", "n", "/", "b", "i", "t", "c", "o", "i", "n", " ", "i", "n", "t", "o", " ", "y", "\"">>
MsgLongDescriptive ==
  <<"n", "e", "t", ":", " ", "d", "r", "o", "p", " ", "t", "h", "e", " ", "u", "n", "u", "s", "e", "d", " ", "p", "e", "e", "r", " ", "e", "v", "i", "c", "t", "i", "o", "n", " ", "h", "e", "l", "p", "e", "r", " ", "a", "n", "d", " ", "i", "t", "s", " ", "t", "e", "s", "t", "\n", "\n", "b", "o", "d", "y">>

core_merge_patterns ==
  <<PatMergeCoreRef, PatUpstreamMaster, PatUpstreamMain, PatMergePullRequest,
    PatSyncWith>>

\* the regular expression's text matched at position j of m: its "." is any
\* character but a newline, every other character is itself
MatchesAt(m, j, text) ==
  /\ j + Len(text) - 1 <= Len(m)
  /\ \A k \in DOMAIN text :
        IF text[k] = "." THEN m[j + k - 1] # "\n" ELSE m[j + k - 1] = text[k]

\* re.match(r"Merge branch '.*' of https://github.com/bitcoin/bitcoin into ",
\* commit_message, re.IGNORECASE): anchored at the start, ".*" is any run of
\* characters without a newline; IGNORECASE compares both sides lower-cased
MergeBranchHeadLowered == Lower(ReMergeBranchHead)

MergeBranchTailLowered == Lower(ReMergeBranchTail)

MatchesMergeBranchOf(commit_message) ==
  LET m == Lower(commit_message)
      h == MergeBranchHeadLowered
      t == MergeBranchTailLowered
  IN  /\ MatchesAt(m, 1, h)
      /\ \E j \in (Len(h) + 1)..(Len(m) - Len(t) + 1) :
            /\ MatchesAt(m, j, t)
            /\ \A k \in (Len(h) + 1)..(j - 1) : m[k] # "\n"

\* pattern.lower() of every pattern
core_merge_patterns_lowered ==
  [i \in DOMAIN core_merge_patterns |-> Lower(core_merge_patterns[i])]

\* contributor.py:19-35
is_core_merge_commit(commit_message) ==
  LET lowered == Lower(commit_message)
  IN  \/ \E i \in DOMAIN core_merge_patterns_lowered :
            Contains(core_merge_patterns_lowered[i], lowered)
      \/ MatchesMergeBranchOf(commit_message)

CORE_REPO_IDENTIFIER == "bitcoin/bitcoin"

KNOTS_REPO_IDENTIFIER == "bitcoinknots/bitcoin"

\* a repository that is neither the upstream nor the fork
OTHER_REPO_IDENTIFIER == "example/project"

(***************************************************************************)
(* collections.Counter, as the sequence of <<key, count>> in insertion     *)
(* order (the order .items() yields).                                      *)
(***************************************************************************)
CounterKeys(counter) == {counter[i][1] : i \in DOMAIN counter}

\* the counter adding a new entry for every increment
MutCounterIncrAppend(counter, key) == Append(counter, <<key, 1>>)

\* counter[key] += 1
CounterIncr(counter, key) ==
  IF key \in CounterKeys(counter)
  THEN [i \in DOMAIN counter |->
          IF counter[i][1] = key THEN <<key, counter[i][2] + 1>> ELSE counter[i]]
  ELSE Append(counter, <<key, 1>>)

\* [c[1] for c in pairs]
Counts(pairs) == [i \in DOMAIN pairs |-> pairs[i][2]]

\* list.sort(key=lambda x: x[1], reverse=True) / sorted(..., reverse=True):
\* stable, so the pairs of one count keep their input order; the result is the
\* pairs of the largest count, then those of the next count, and so on
RECURSIVE GroupsByCountDesc(_, _)
GroupsByCountDesc(pairs, counts) ==
  IF counts = {} THEN <<>>
  ELSE LET largest == CHOOSE c \in counts : \A d \in counts : d <= c
           HasLargest(pair) == pair[2] = largest
       IN  SelectSeq(pairs, HasLargest)
             \o GroupsByCountDesc(pairs, counts \ {largest})

\* the descending sort that reverses the input order of the pairs of one count
MutSortByCountDescTiesReversed(pairs) ==
  GroupsByCountDesc([i \in DOMAIN pairs |-> pairs[Len(pairs) + 1 - i]],
                    {pairs[i][2] : i \in DOMAIN pairs})

SortByCountDesc(pairs) ==
  GroupsByCountDesc(pairs, {pairs[i][2] : i \in DOMAIN pairs})

\* sorted(values): ascending; equal integers are indistinguishable
RECURSIVE GroupsAsc(_, _)
GroupsAsc(values, distinct) ==
  IF distinct = {} THEN <<>>
  ELSE LET smallest == CHOOSE v \in distinct : \A w \in distinct : v <= w
           IsSmallest(value) == value = smallest
       IN  SelectSeq(values, IsSmallest) \o GroupsAsc(values, distinct \ {smallest})

SortAsc(values) == GroupsAsc(values, {values[i] : i \in DOMAIN values})

(***************************************************************************)
(* Inequality and resilience metrics (contributor.py).                     *)
(***************************************************************************)
\* the loop of lines 220-222: gini += (i + 1) * value over the sorted values
WeightedSum(values, n) == SumSeq([i \in 1..n |-> i * values[i]])

\* the formula without its 1 / n term
MutGiniOfSortedNoCorrection(values) ==
  LET n == Len(values)
      total == SumSeq(values)
      gini == WeightedSum(values, n)
  IN  RatMax(<<0, 1>>, Rat(2 * gini - n * total, n * total))

\* lines 216-225, after the sort of line 213
GiniOfSorted(values) ==
  LET n == Len(values)
      total == SumSeq(values)
      gini == WeightedSum(values, n)
  IN  \* 2 * gini / (n * total) - 1 - 1 / n
      RatMax(<<0, 1>>, Rat(2 * gini - n * total - total, n * total))

\* the formula applied to the values in the order given
MutGiniNoSort(values) ==
  IF values = <<>> \/ SumSeq(values) = 0 THEN <<0, 1>> ELSE GiniOfSorted(values)

\* contributor.py:198-225
calculate_gini_coefficient(values) ==
  IF values = <<>> \/ SumSeq(values) = 0 THEN <<0, 1>>
  ELSE GiniOfSorted(SortAsc(values))

\* the loop body leaving only when the cumulative count exceeds the threshold
MutBusFactorStepStrict(state, pair, total) ==
  LET cumulative == state.cumulative + pair[2]
  IN  [cumulative |-> cumulative,
       bus_factor |-> state.bus_factor + 1,
       done |-> 5 * cumulative > 4 * total]

\* one pass of the loop body of lines 255-259 for one (contributor, commits)
\* pair; `done` records that the break of line 259 is taken.  threshold = 0.8 * total, and cumulative >= 0.8 * total
\* is decided as 5 * cumulative >= 4 * total: the double nearest 0.8 * total
\* is the integer itself when 0.8 * total is one, and otherwise lies on the
\* same side of every integer as 0.8 * total.
BusFactorStep(state, pair, total) ==
  LET cumulative == state.cumulative + pair[2]
  IN  [cumulative |-> cumulative,
       bus_factor |-> state.bus_factor + 1,
       done |-> 5 * cumulative >= 4 * total]

\* the loop of lines 255-259 over pairs[lo..hi], from the given loop state;
\* once the break is taken the remaining pairs are not visited
RECURSIVE BusFactorLoop(_, _, _, _, _)
BusFactorLoop(state, pairs, lo, hi, total) ==
  IF state.done \/ lo > hi THEN state
  ELSE IF lo = hi THEN BusFactorStep(state, pairs[lo], total)
  ELSE LET mid == (lo + hi) \div 2
       IN  BusFactorLoop(BusFactorLoop(state, pairs, lo, mid, total),
                         pairs, mid + 1, hi, total)

\* lines 251-253
BusFactorLoopInit == [cumulative |-> 0, bus_factor |-> 0, done |-> FALSE]

\* the loop leaving before it counts the contributor who crosses the threshold
MutBusFactorBreakFirst(contributors_by_commits) ==
  IF contributors_by_commits = <<>> THEN 0
  ELSE LET total_commits == SumSeq(Counts(contributors_by_commits))
       IN  IF total_commits = 0 THEN 0
           ELSE BusFactorLoop(BusFactorLoopInit, contributors_by_commits, 1,
                              Len(contributors_by_commits),
                              total_commits).bus_factor - 1

\* the loop visiting the contributors from the last to the first
MutBusFactorFromSmallest(contributors_by_commits) ==
  IF contributors_by_commits = <<>> THEN 0
  ELSE LET total_commits == SumSeq(Counts(contributors_by_commits))
           n == Len(contributors_by_commits)
           reversed == [i \in 1..n |-> contributors_by_commits[n + 1 - i]]
       IN  IF total_commits = 0 THEN 0
           ELSE BusFactorLoop(BusFactorLoopInit, reversed, 1, n,
                              total_commits).bus_factor

\* contributor.py:228-261
calculate_bus_factor(contributors_by_commits) ==
  IF contributors_by_commits = <<>> THEN 0
  ELSE LET total_commits == SumSeq(Counts(contributors_by_commits))
       IN  IF total_commits = 0 THEN 0
           ELSE BusFactorLoop(BusFactorLoopInit, contributors_by_commits, 1,
                              Len(contributors_by_commits),
                              total_commits).bus_factor


(***************************************************************************)
(* Python dicts with string keys, as functions; {} is the empty function.  *)
(***************************************************************************)
EmptyDict == <<>>

\* d.get(key, default)
Get(d, key, default) == IF key \in DOMAIN d THEN d[key] ELSE default

\* bool(d)
Truthy(d) == DOMAIN d # {}

\* metrics.update(new) / metrics[key] = value: the new entries win
Update(d, new) == new @@ d

\* Optional[set[str]]
NoneShas == [is_none |-> TRUE, shas |-> {}]

SomeShas(s) == [is_none |-> FALSE, shas |-> s]

(***************************************************************************)
(* calculate_contributor_metrics (contributor.py:37-195).                  *)
(* A commit is [sha, login, name, message, date]: login is                 *)
(* commit["author"]["login"], name is commit["commit"]["author"]["name"],  *)
(* date is the committer date in hours (NoDate when absent).               *)
(***************************************************************************)
\* the resolution giving a commit without login and name the identity "unknown"
MutAuthorLoginUnknown(commit) ==
  IF commit.login # "" THEN commit.login
  ELSE IF commit.name # "" THEN commit.name
  ELSE "unknown"

\* lines 92-96: the forge login, else the free-text author name, else none
AuthorLogin(commit) ==
  IF commit.login # "" THEN commit.login
  ELSE IF commit.name # "" THEN commit.name
  ELSE ""

\* the classifier without its message heuristic
MutIsMergedFromCoreShaOnly(commit, core_commit_shas) ==
  (~core_commit_shas.is_none) /\ commit.sha \in core_commit_shas.shas

\* the classifier without its SHA lookup
MutIsMergedFromCoreMessageOnly(commit, core_commit_shas) ==
  is_core_merge_commit(commit.message)

\* lines 106-107
IsMergedFromCore(commit, core_commit_shas) ==
  \/ (~core_commit_shas.is_none) /\ commit.sha \in core_commit_shas.shas
  \/ is_core_merge_commit(commit.message)

ContributorLoopInit ==
  [all_commit_authors_in_period |-> {},
   knots_original_commit_authors |-> {},
   core_merge_commit_authors |-> {},
   knots_author_original_commit_counts |-> <<>>,
   knots_author_core_merge_commit_counts |-> <<>>,
   non_knots_author_commit_counts |-> <<>>]

\* the loop body filing every commit of an author in the bucket of the
\* author's first commit
MutContributorLoopBodySticky(acc, commit, is_knots_repo, core_commit_shas) ==
  LET author_login == AuthorLogin(commit)
      seen == [acc EXCEPT !.all_commit_authors_in_period = @ \cup {author_login}]
      merged ==
        IF author_login \in acc.core_merge_commit_authors THEN TRUE
        ELSE IF author_login \in acc.knots_original_commit_authors THEN FALSE
        ELSE IsMergedFromCore(commit, core_commit_shas)
  IN  IF author_login = "" THEN acc
      ELSE IF ~is_knots_repo
      THEN IF ~is_core_merge_commit(commit.message)
           THEN [seen EXCEPT !.non_knots_author_commit_counts =
                               CounterIncr(@, author_login)]
           ELSE seen
      ELSE IF merged
      THEN [seen EXCEPT !.core_merge_commit_authors = @ \cup {author_login},
                        !.knots_author_core_merge_commit_counts =
                            CounterIncr(@, author_login)]
      ELSE [seen EXCEPT !.knots_original_commit_authors = @ \cup {author_login},
                        !.knots_author_original_commit_counts =
                            CounterIncr(@, author_login)]

\* one iteration of the loop of lines 91-118
ContributorLoopBody(acc, commit, is_knots_repo, core_commit_shas) ==
  LET author_login == AuthorLogin(commit)
  IN  IF author_login = "" THEN acc
      ELSE LET seen == [acc EXCEPT !.all_commit_authors_in_period = @ \cup {author_login}]
           IN  IF is_knots_repo
               THEN IF IsMergedFromCore(commit, core_commit_shas)
                    THEN [seen EXCEPT
                            !.core_merge_commit_authors = @ \cup {author_login},
                            !.knots_author_core_merge_commit_counts =
                                CounterIncr(@, author_login)]
                    ELSE [seen EXCEPT
                            !.knots_original_commit_authors = @ \cup {author_login},
                            !.knots_author_original_commit_counts =
                                CounterIncr(@, author_login)]
               ELSE IF ~is_core_merge_commit(commit.message)
                    THEN [seen EXCEPT
                            !.non_knots_author_commit_counts =
                                CounterIncr(@, author_login)]
                    ELSE seen

RECURSIVE ContributorLoop(_, _, _, _)
ContributorLoop(commits_data, n, is_knots_repo, core_commit_shas) ==
  IF n = 0 THEN ContributorLoopInit
  ELSE ContributorLoopBody(
         ContributorLoop(commits_data, n - 1, is_knots_repo, core_commit_shas),
         commits_data[n], is_knots_repo, core_commit_shas)

\* the fork's metrics counting every author of an upstream-merged commit as
\* merge-only
MutKnotsCommitMetricsNoDifference(acc) ==
  LET knots_contrib_by_original ==
        SortByCountDesc(acc.knots_author_original_commit_counts)
  IN  [knots_original_commit_authors_count |->
          Cardinality(acc.knots_original_commit_authors),
       core_merge_commit_authors_count |->
          Cardinality(acc.core_merge_commit_authors),
       knots_contributors_only_merging_core |->
          Cardinality(acc.core_merge_commit_authors),
       knots_contributors_with_original_work |->
          Cardinality(acc.knots_original_commit_authors),
       knots_contributors_by_original_commits |-> knots_contrib_by_original,
       knots_top_original_contributors |-> Take(knots_contrib_by_original, 10),
       knots_original_contributor_gini |->
          IF knots_contrib_by_original # <<>>
          THEN calculate_gini_coefficient(Counts(knots_contrib_by_original))
          ELSE <<0, 1>>,
       knots_original_bus_factor |->
          IF knots_contrib_by_original # <<>>
          THEN calculate_bus_factor(knots_contrib_by_original)
          ELSE 0]

\* lines 123-140: the fork's metrics when there are commits
KnotsCommitMetrics(acc) ==
  LET knots_contrib_by_original ==
        SortByCountDesc(acc.knots_author_original_commit_counts)
  IN  [knots_original_commit_authors_count |->
          Cardinality(acc.knots_original_commit_authors),
       core_merge_commit_authors_count |->
          Cardinality(acc.core_merge_commit_authors),
       knots_contributors_only_merging_core |->
          Cardinality(acc.core_merge_commit_authors
                        \ acc.knots_original_commit_authors),
       knots_contributors_with_original_work |->
          Cardinality(acc.knots_original_commit_authors),
       knots_contributors_by_original_commits |-> knots_contrib_by_original,
       knots_top_original_contributors |-> Take(knots_contrib_by_original, 10),
       knots_original_contributor_gini |->
          IF knots_contrib_by_original # <<>>
          THEN calculate_gini_coefficient(Counts(knots_contrib_by_original))
          ELSE <<0, 1>>,
       knots_original_bus_factor |->
          IF knots_contrib_by_original # <<>>
          THEN calculate_bus_factor(knots_contrib_by_original)
          ELSE 0]

\* lines 141-149: any other repository's metrics when there are commits
CoreLikeCommitMetrics(acc) ==
  LET core_like_contrib_by_commits ==
        SortByCountDesc(acc.non_knots_author_commit_counts)
  IN  IF core_like_contrib_by_commits # <<>>
      THEN [contributor_gini |->
              calculate_gini_coefficient(Counts(core_like_contrib_by_commits)),
            bus_factor |-> calculate_bus_factor(core_like_contrib_by_commits)]
      ELSE [contributor_gini |-> <<0, 1>>, bus_factor |-> 0]

\* lines 89-157
CommitAuthorMetrics(commits_data, total_contributors, is_knots_repo, core_commit_shas) ==
  IF commits_data # <<>>
  THEN LET acc == ContributorLoop(commits_data, Len(commits_data), is_knots_repo,
                                  core_commit_shas)
           active == Cardinality(acc.all_commit_authors_in_period)
       IN  Update([active_contributors |-> active,
                   active_ratio |-> Rat(active, total_contributors)],
                  IF is_knots_repo THEN KnotsCommitMetrics(acc)
                  ELSE CoreLikeCommitMetrics(acc))
  ELSE Update([active_contributors |-> 0, active_ratio |-> <<0, 1>>],
              IF is_knots_repo
              THEN [knots_original_commit_authors_count |-> 0,
                    core_merge_commit_authors_count |-> 0,
                    knots_contributors_only_merging_core |-> 0,
                    knots_contributors_with_original_work |-> 0]
              ELSE EmptyDict)

\* lines 161-170: the general Gini and bus factor from the /contributors view
GeneralGiniAndBusFactor(metrics, contributors_by_gh_api_contributions, is_knots_repo) ==
  LET keep_gini == (~is_knots_repo) /\ "contributor_gini" \in DOMAIN metrics
      with_gini ==
        IF keep_gini THEN metrics
        ELSE IF Len(contributors_by_gh_api_contributions) > 1
        THEN Update(metrics,
               [contributor_gini |->
                  calculate_gini_coefficient(
                    Counts(contributors_by_gh_api_contributions))])
        ELSE Update(metrics, [contributor_gini |-> <<1, 1>>])
  IN  IF (~is_knots_repo) /\ "bus_factor" \in DOMAIN with_gini THEN with_gini
      ELSE Update(with_gini,
             [bus_factor |->
                calculate_bus_factor(contributors_by_gh_api_contributions)])

\* The organisational-diversity entries (lines 172-193) are left out of the
\* record: no score reads them.
calculate_contributor_metrics(github_data, git_data, repo_name, core_commit_shas) ==
  LET is_knots_repo == repo_name = KNOTS_REPO_IDENTIFIER
      github_contributors == github_data.contributors
      total_contributors == Len(github_contributors)
  IN  IF total_contributors = 0 THEN [total_contributors |-> 0]
      ELSE LET contributors_by_gh_api_contributions ==
                 SortByCountDesc(
                   [i \in DOMAIN github_contributors |->
                      <<github_contributors[i].login,
                        github_contributors[i].contributions>>])
               base == [total_contributors |-> total_contributors,
                        contributors_by_commits |->
                          contributors_by_gh_api_contributions,
                        top_contributors |->
                          Take(contributors_by_gh_api_contributions, 10)]
               with_commits ==
                 Update(base, CommitAuthorMetrics(github_data.commits,
                                total_contributors, is_knots_repo, core_commit_shas))
           IN  GeneralGiniAndBusFactor(with_commits,
                 contributors_by_gh_api_contributions, is_knots_repo)

\* math.log(n) for n = 1..24, in millionths
LnMicro ==
  <<0, 693147, 1098612, 1386294, 1609438, 1791759, 1945910, 2079442, 2197225, 2302585,
    2397895, 2484907, 2564949, 2639057, 2708050, 2772589, 2833213, 2890372, 2944439,
    2995732, 3044522, 3091042, 3135494, 3178054>>

\* -sum(p * math.log(p) for p in probabilities if p > 0) with p = value /
\* total, in millionths: log(total) - sum(value * log(value)) / total
EntropyMicro(values) ==
  LET total == SumSeq(values)
      weighted == SumSeq([i \in DOMAIN values |->
                            IF values[i] > 0 THEN values[i] * LnMicro[values[i]] ELSE 0])
  IN  LnMicro[total] - ((2 * weighted + total) \div (2 * total))

\* contributor.py:288-315; the score to three decimals, in thousandths
calculate_diversity_score(values) ==
  IF values = <<>> \/ SumSeq(values) = 0 THEN 0
  ELSE LET entropy == EntropyMicro(values)
           max_entropy == IF Len(values) > 0 THEN LnMicro[Len(values)] ELSE 0
       IN  IF max_entropy > 0 THEN RoundScaled(entropy, max_entropy, 1000) ELSE 0

(***************************************************************************)
(* calculate_commit_metrics (commits.py:34-104).                           *)
(***************************************************************************)
\* a commit without a committer date
NoDate == -1

HoursPerDay == 24

\* lines 56-75
original_commits_for_repo(raw_commits, repo_name, core_commit_shas) ==
  LET NotInCoreNorMerge(commit) ==
        /\ commit.sha \notin core_commit_shas.shas
        /\ ~is_core_merge_commit(commit.message)
      NotMerge(commit) == ~is_core_merge_commit(commit.message)
  IN  IF repo_name = KNOTS_REPO_IDENTIFIER /\ ~core_commit_shas.is_none
      THEN SelectSeq(raw_commits, NotInCoreNorMerge)
      ELSE IF repo_name = CORE_REPO_IDENTIFIER
      THEN SelectSeq(raw_commits, NotMerge)
      ELSE raw_commits

SetMin(S) == CHOOSE x \in S : \A y \in S : x <= y

SetMax(S) == CHOOSE x \in S : \A y \in S : x >= y

\* round(x, 2) of a rational, in hundredths
Round2(p) == RoundScaled(p[1], p[2], 100)

\* the frequency calculation with `commits_per_day >= 1` for the active category
MutCommitFrequencyInclusive(commits) ==
  LET dated == {i \in DOMAIN commits : commits[i].date # NoDate}
  IN  IF dated = {}
      THEN [commits_per_day |-> 0, commits_per_week |-> 0, commits_per_month |-> 0,
            commit_activity_days |-> 0, commit_frequency |-> "inactive"]
      ELSE LET first_date == SetMin({commits[i].date : i \in dated})
               last_date == SetMax({commits[i].date : i \in dated})
               days == ((last_date - first_date) \div HoursPerDay) + 1
               delta == IF days <= 0 THEN 1 ELSE days
               commits_per_day == Rat(Len(commits), delta)
               commits_per_week == RatMul(commits_per_day, <<7, 1>>)
               commits_per_month == RatMul(commits_per_day, <<30, 1>>)
               active_days ==
                 Cardinality({commits[i].date \div HoursPerDay : i \in dated})
               frequency ==
                 IF RatLess(<<3, 1>>, commits_per_day) THEN "very_active"
                 ELSE IF RatLeq(<<1, 1>>, commits_per_day) THEN "active"
                 ELSE IF RatLess(<<1, 1>>, commits_per_week) THEN "moderate"
                 ELSE IF RatLess(<<1, 1>>, commits_per_month) THEN "low"
                 ELSE "inactive"
           IN  [commits_per_day |-> Round2(commits_per_day),
                commits_per_week |-> Round2(commits_per_week),
                commits_per_month |-> Round2(commits_per_month),
                commit_activity_days |-> active_days,
                commit_activity_ratio |-> Rat(active_days, delta),
                commit_frequency |-> frequency]

\* commits.py:107-175. Rates are rationals; the reported ones are rounded to
\* hundredths.
calculate_commit_frequency(commits) ==
  LET dated == {i \in DOMAIN commits : commits[i].date # NoDate}
  IN  IF dated = {}
      THEN [commits_per_day |-> 0, commits_per_week |-> 0, commits_per_month |-> 0,
            commit_activity_days |-> 0, commit_frequency |-> "inactive"]
      ELSE LET first_date == SetMin({commits[i].date : i \in dated})
               last_date == SetMax({commits[i].date : i \in dated})
               days == ((last_date - first_date) \div HoursPerDay) + 1
               delta == IF days <= 0 THEN 1 ELSE days
               commits_per_day == Rat(Len(commits), delta)
               commits_per_week == RatMul(commits_per_day, <<7, 1>>)
               commits_per_month == RatMul(commits_per_day, <<30, 1>>)
               active_days ==
                 Cardinality({commits[i].date \div HoursPerDay : i \in dated})
               frequency ==
                 IF RatLess(<<3, 1>>, commits_per_day) THEN "very_active"
                 ELSE IF RatLess(<<1, 1>>, commits_per_day) THEN "active"
                 ELSE IF RatLess(<<1, 1>>, commits_per_week) THEN "moderate"
                 ELSE IF RatLess(<<1, 1>>, commits_per_month) THEN "low"
                 ELSE "inactive"
           IN  [commits_per_day |-> Round2(commits_per_day),
                commits_per_week |-> Round2(commits_per_week),
                commits_per_month |-> Round2(commits_per_month),
                commit_activity_days |-> active_days,
                commit_activity_ratio |-> Rat(active_days, delta),
                commit_frequency |-> frequency]

IsSpace(c) == c \in {" ", "\t", "\n", "\r"}

\* message.split("\n")[0].strip()
FirstLine(message) ==
  LET breaks == {i \in DOMAIN message : message[i] = "\n"}
      line == IF breaks = {} THEN message
              ELSE SubSeq(message, 1, SetMin(breaks) - 1)
      solid == {i \in DOMAIN line : ~IsSpace(line[i])}
  IN  IF solid = {} THEN <<>> ELSE SubSeq(line, SetMin(solid), SetMax(solid))

\* len(first_line.split())
WordCount(line) ==
  Cardinality({i \in DOMAIN line :
                 ~IsSpace(line[i]) /\ (i = 1 \/ IsSpace(line[i - 1]))})

\* commits.py:215-259; quality_score is in tenths
analyze_commit_messages(commits) ==
  IF commits = <<>>
  THEN [avg_message_length |-> 0, descriptive_ratio |-> 0, quality_score |-> 0]
  ELSE LET n == Len(commits)
           message_lengths == [i \in DOMAIN commits |-> Len(FirstLine(commits[i].message))]
           descriptive_count ==
             Cardinality({i \in DOMAIN commits :
                            WordCount(FirstLine(commits[i].message)) > 5})
           avg_length == Rat(SumSeq(message_lengths), n)
           descriptive_ratio == Rat(descriptive_count, n)
           length_score == RatMin(<<10, 1>>, RatMul(avg_length, <<1, 5>>))
           descriptive_score == RatMul(descriptive_ratio, <<10, 1>>)
           quality_score == RatMul(RatAdd(length_score, descriptive_score), <<1, 2>>)
       IN  [avg_message_length |-> Round2(avg_length),
            descriptive_ratio |-> Round3(descriptive_ratio),
            quality_score |-> Round1(quality_score)]

RECURSIVE AuthorshipLoop(_, _)
AuthorshipLoop(commits, n) ==
  IF n = 0 THEN <<>>
  ELSE LET authors == AuthorshipLoop(commits, n - 1)
           author == AuthorLogin(commits[n])
       IN  IF author # "" THEN CounterIncr(authors, author) ELSE authors

\* commits.py:262-293; Counter.most_common(5) is the stable descending sort
analyze_commit_authorship(commits) ==
  IF commits = <<>> THEN [unique_authors |-> 0, top_authors |-> <<>>]
  ELSE LET authors == AuthorshipLoop(commits, Len(commits))
       IN  [unique_authors |-> Len(authors),
            top_authors |-> Take(SortByCountDesc(authors), 5)]

\* The size, merge-commit and activity-pattern entries (lines 88, 91-102) are
\* left out of the record: no score reads them.
calculate_commit_metrics(github_data, git_data, repo_name, core_commit_shas) ==
  LET raw_commits == github_data.commits
      originals == original_commits_for_repo(raw_commits, repo_name, core_commit_shas)
      counts == [total_commits_in_period |-> Len(raw_commits),
                 original_commits_in_period |-> Len(originals)]
  IN  IF originals = <<>>
      THEN Update(counts,
             [commits_per_day |-> 0, commit_frequency |-> "inactive",
              commit_message_quality |-> [quality_score |-> 0]])
      ELSE Update(Update(Update(counts, calculate_commit_frequency(originals)),
                         [commit_message_quality |->
                            analyze_commit_messages(originals)]),
                  analyze_commit_authorship(originals))

(***************************************************************************)
(* calculate_pr_metrics (metrics/pull_requests.py).                        *)
(* A pull request is [number, state, merged, created_at, merged_at,        *)
(* closed_at, user, merged_by, merge_commit_sha]; times are in hours.      *)
(***************************************************************************)
\* pull_requests.py:58-94; ratios in thousandths
calculate_pr_state_distribution(pull_requests) ==
  LET IsOpen(pr) == pr.state = "open"
      IsClosed(pr) == pr.state = "closed"
      IsMerged(pr) == pr.merged
      open_prs == Cardinality({i \in DOMAIN pull_requests : IsOpen(pull_requests[i])})
      closed_prs == Cardinality({i \in DOMAIN pull_requests : IsClosed(pull_requests[i])})
      merged_prs == Cardinality({i \in DOMAIN pull_requests : IsMerged(pull_requests[i])})
      total == Len(pull_requests)
  IN  [open_prs |-> open_prs, closed_prs |-> closed_prs, merged_prs |-> merged_prs,
       open_ratio |-> Round3(Rat(open_prs, total)),
       merged_ratio |-> Round3(Rat(merged_prs, total)),
       closed_unmerged_ratio |-> Round3(Rat(closed_prs - merged_prs, total))]

\* sum(xs) / len(xs) if xs else 0, over the values f[i], i in a set of indices
Average(f, indices) ==
  IF indices = {} THEN <<0, 1>>
  ELSE LET RECURSIVE Sum(_)
           Sum(S) == IF S = {} THEN 0
                     ELSE LET i == CHOOSE j \in S : TRUE IN f[i] + Sum(S \ {i})
       IN  Rat(Sum(indices), Cardinality(indices))

\* pull_requests.py:194-206, as a rational
PrVelocityScore(avg_time_to_merge) ==
  LET h == avg_time_to_merge
  IN  IF h[1] = 0 THEN <<0, 1>>
      ELSE IF RatLeq(h, <<24, 1>>) THEN <<10, 1>>
      ELSE IF RatLeq(h, <<168, 1>>)
      THEN RatAdd(<<5, 1>>, RatMul(RatSub(<<168, 1>>, h), <<5, 168 - 24>>))
      ELSE IF RatLeq(h, <<720, 1>>)
      THEN RatAdd(<<1, 1>>, RatMul(RatSub(<<720, 1>>, h), <<4, 720 - 168>>))
      ELSE RatMax(<<0, 1>>, RatSub(<<1, 1>>, RatMul(RatSub(h, <<720, 1>>), <<1, 720>>)))

\* pull_requests.py:161-212; averages in hundredths, the score in tenths
calculate_pr_lifecycle_metrics(pull_requests) ==
  LET IsMerged(pr) == pr.merged
      IsClosedUnmerged(pr) == pr.state = "closed" /\ ~pr.merged
      merge_hours == [i \in DOMAIN pull_requests |->
                        pull_requests[i].merged_at - pull_requests[i].created_at]
      close_hours == [i \in DOMAIN pull_requests |->
                        pull_requests[i].closed_at - pull_requests[i].created_at]
      avg_time_to_merge == Average(merge_hours, {i \in DOMAIN pull_requests : IsMerged(pull_requests[i])})
      avg_time_to_close == Average(close_hours, {i \in DOMAIN pull_requests : IsClosedUnmerged(pull_requests[i])})
  IN  [avg_time_to_merge |-> Round2(avg_time_to_merge),
       avg_time_to_close |-> Round2(avg_time_to_close),
       pr_velocity_score |-> Round1(PrVelocityScore(avg_time_to_merge))]

\* pull_requests.py:17-55. The review, size and author entries (lines 44,
\* 50, 53) are left out of the record: no score reads them.
calculate_pr_metrics(github_data) ==
  LET pull_requests == github_data.pull_requests
  IN  IF Len(pull_requests) = 0 THEN [total_prs |-> 0]
      ELSE Update(Update([total_prs |-> Len(pull_requests)],
                         calculate_pr_state_distribution(pull_requests)),
                  calculate_pr_lifecycle_metrics(pull_requests))

(***************************************************************************)
(* calculate_code_review_metrics (metrics/code_review.py).                 *)
(* pr_reviews maps a PR number to its reviews [user, state, submitted_at], *)
(* pr_comments maps a PR number to its comments [user].                    *)
(***************************************************************************)
\* code_review.py:105-163; ratios in thousandths, the score in tenths
calculate_review_thoroughness_metrics(pull_requests, pr_reviews, pr_comments) ==
  LET Reviewers(n) == {pr_reviews[n][i].user : i \in DOMAIN pr_reviews[n]} \ {""}
      CommentCount(n) == IF n \in DOMAIN pr_comments THEN Len(pr_comments[n]) ELSE 0
      HasRequestedChanges(n) ==
        \E i \in DOMAIN pr_reviews[n] : pr_reviews[n][i].state = "CHANGES_REQUESTED"
      multi_reviewer_prs ==
        Cardinality({n \in DOMAIN pr_reviews : Cardinality(Reviewers(n)) > 1})
      substantive_review_prs ==
        Cardinality({n \in DOMAIN pr_reviews :
                       CommentCount(n) >= 3 \/ HasRequestedChanges(n)})
      sample_size == Cardinality(DOMAIN pr_reviews)
      multi_reviewer_ratio ==
        IF sample_size > 0 THEN Rat(multi_reviewer_prs, sample_size) ELSE <<0, 1>>
      substantive_review_ratio ==
        IF sample_size > 0 THEN Rat(substantive_review_prs, sample_size) ELSE <<0, 1>>
      review_thoroughness_score ==
        RatAdd(RatMul(multi_reviewer_ratio, <<5, 1>>),
               RatMul(substantive_review_ratio, <<5, 1>>))
  IN  [multi_reviewer_ratio |-> Round3(multi_reviewer_ratio),
       substantive_review_ratio |-> Round3(substantive_review_ratio),
       review_thoroughness_score |-> Round1(review_thoroughness_score)]

\* code_review.py:269-283, as a rational
ReviewResponsivenessScore(avg_time_to_first_review) ==
  LET h == avg_time_to_first_review
  IN  IF h[1] = 0 THEN <<0, 1>>
      ELSE IF RatLeq(h, <<2, 1>>) THEN <<10, 1>>
      ELSE IF RatLeq(h, <<24, 1>>)
      THEN RatAdd(<<7, 1>>, RatMul(RatSub(<<24, 1>>, h), <<3, 24 - 2>>))
      ELSE IF RatLeq(h, <<72, 1>>)
      THEN RatAdd(<<3, 1>>, RatMul(RatSub(<<72, 1>>, h), <<4, 72 - 24>>))
      ELSE IF RatLeq(h, <<168, 1>>)
      THEN RatMul(RatSub(<<168, 1>>, h), <<3, 168 - 72>>)
      ELSE <<0, 1>>

\* code_review.py:223-288. A review without submitted_at has NoDate.
calculate_review_responsiveness_metrics(pull_requests, pr_reviews) ==
  LET PrIndex(n) == {i \in DOMAIN pull_requests : pull_requests[i].number = n}
      ReviewTimes(n) ==
        {pr_reviews[n][i].submitted_at : i \in DOMAIN pr_reviews[n]} \ {NoDate}
      \* `not pr_created_at` is also true of no date at all
      timed == {n \in DOMAIN pr_reviews :
                  /\ PrIndex(n) # {}
                  /\ pull_requests[SetMin(PrIndex(n))].created_at # NoDate
                  /\ ReviewTimes(n) # {}}
      hours_to_review ==
        [n \in timed |->
           SetMin(ReviewTimes(n)) - pull_requests[SetMin(PrIndex(n))].created_at]
      avg_time_to_first_review == Average(hours_to_review, timed)
  IN  [avg_time_to_first_review |-> Round2(avg_time_to_first_review),
       review_responsiveness_score |->
          Round1(ReviewResponsivenessScore(avg_time_to_first_review))]

\* the lookup comparing the merge commit's author only, not its committer
MutIsSelfMergeAuthorOnly(pr, commit_details, have_client) ==
  LET author_login == pr.user
      merged_by_login == pr.merged_by
  IN  IF author_login # "" /\ merged_by_login # "" /\ author_login = merged_by_login
      THEN TRUE
      ELSE IF /\ author_login # ""
              /\ merged_by_login = ""
              /\ pr.merge_commit_sha # ""
              /\ have_client
      THEN /\ pr.merge_commit_sha \in DOMAIN commit_details
           /\ commit_details[pr.merge_commit_sha].author = author_login
      ELSE FALSE

\* code_review.py:320-336: commit_details maps a merge commit SHA the forge
\* knows to [author, committer] logins
IsSelfMerge(pr, commit_details, have_client) ==
  LET author_login == pr.user
      merged_by_login == pr.merged_by
  IN  IF author_login # "" /\ merged_by_login # "" /\ author_login = merged_by_login
      THEN TRUE
      ELSE IF /\ author_login # ""
              /\ merged_by_login = ""
              /\ pr.merge_commit_sha # ""
              /\ have_client
      THEN /\ pr.merge_commit_sha \in DOMAIN commit_details
           /\ \/ commit_details[pr.merge_commit_sha].author = author_login
              \/ commit_details[pr.merge_commit_sha].committer = author_login
      ELSE FALSE

\* code_review.py:291-347; the ratio in thousandths
calculate_self_merge_metrics(pull_requests, repo_name, commit_details) ==
  LET WasMerged(pr) == pr.merged_at # NoDate
      SelfMerged(pr) == WasMerged(pr) /\ IsSelfMerge(pr, commit_details, repo_name # "")
      merged_prs_count == Cardinality({i \in DOMAIN pull_requests : WasMerged(pull_requests[i])})
      self_merged_count == Cardinality({i \in DOMAIN pull_requests : SelfMerged(pull_requests[i])})
  IN  IF pull_requests = <<>>
      THEN [self_merged_count |-> 0, self_merged_ratio |-> 0,
            self_merged_prs_analyzed |-> 0]
      ELSE [self_merged_count |-> self_merged_count,
            self_merged_ratio |->
               IF merged_prs_count > 0
               THEN Round3(Rat(self_merged_count, merged_prs_count)) ELSE 0,
            self_merged_prs_analyzed |-> merged_prs_count]

\* code_review.py:19-61. The volume and diversity entries (lines 47, 53) are
\* left out of the record: no score reads them.
calculate_code_review_metrics(github_data, repo_name) ==
  LET pull_requests == github_data.pull_requests
      pr_reviews == github_data.pr_reviews
      pr_comments == github_data.pr_comments
  IN  IF pull_requests = <<>> \/ (~Truthy(pr_reviews) /\ ~Truthy(pr_comments))
      THEN EmptyDict
      ELSE Update(Update(
             calculate_review_thoroughness_metrics(pull_requests, pr_reviews, pr_comments),
             calculate_review_responsiveness_metrics(pull_requests, pr_reviews)),
             calculate_self_merge_metrics(pull_requests, repo_name,
                                          github_data.commit_details))

(***************************************************************************)
(* calculate_cicd_metrics (metrics/ci_cd.py). git_data is                  *)
(* [is_none, ci_config_files, test_files_count]; a workflow run is         *)
(* [conclusion].                                                           *)
(***************************************************************************)
\* ci_cd.py:54-68
has_ci_configs(git_data) ==
  IF git_data.is_none THEN FALSE ELSE Len(git_data.ci_config_files) > 0

\* ci_cd.py:71-120; the rate in thousandths
analyze_workflow_runs(workflow_runs) ==
  IF workflow_runs = <<>>
  THEN [total_workflow_runs |-> 0, workflow_success_rate |-> 0, workflows_per_day |-> 0]
  ELSE LET Succeeded(run) == run.conclusion = "success"
           total_runs == Len(workflow_runs)
           successful_runs == Cardinality({i \in DOMAIN workflow_runs : Succeeded(workflow_runs[i])})
       IN  [total_workflow_runs |-> total_runs,
            successful_workflow_runs |-> successful_runs,
            workflow_success_rate |-> Round3(Rat(successful_runs, total_runs))]

\* ci_cd.py:16-51. The configuration and PR-integration entries (lines 46,
\* 49) and workflows_per_day are left out of the record: no score reads them.
calculate_cicd_metrics(github_data, git_data) ==
  LET workflow_runs == github_data.workflow_runs
      has_ci == workflow_runs # <<>> \/ has_ci_configs(git_data)
  IN  IF ~has_ci THEN [has_ci |-> FALSE]
      ELSE Update([has_ci |-> TRUE], analyze_workflow_runs(workflow_runs))

(***************************************************************************)
(* calculate_issue_metrics (metrics/issues.py). An issue is                *)
(* [state, created_at, updated_at, closed_at, comments, labels]; `now` is  *)
(* datetime.now() in hours.                                                *)
(***************************************************************************)
StaleDays == 30

\* issues.py:146-160, as a rational
FirstResponseScore(avg_time_to_first_response) ==
  LET h == avg_time_to_first_response
  IN  IF h[1] = 0 THEN <<0, 1>>
      ELSE IF RatLeq(h, <<2, 1>>) THEN <<10, 1>>
      ELSE IF RatLeq(h, <<24, 1>>)
      THEN RatAdd(<<7, 1>>, RatMul(RatSub(<<24, 1>>, h), <<3, 24 - 2>>))
      ELSE IF RatLeq(h, <<72, 1>>)
      THEN RatAdd(<<3, 1>>, RatMul(RatSub(<<72, 1>>, h), <<4, 72 - 24>>))
      ELSE IF RatLeq(h, <<168, 1>>)
      THEN RatMul(RatSub(<<168, 1>>, h), <<3, 168 - 72>>)
      ELSE <<0, 1>>

\* issues.py:85-174; the ratio in thousandths, the score in tenths
calculate_issue_responsiveness(issues, now) ==
  LET Commented(issue) == issue.comments > 0
      IsOpen(issue) == issue.state = "open"
      IsClosed(issue) == issue.state = "closed"
      IsStale(issue) ==
        issue.state = "open" /\ ((now - issue.updated_at) \div HoursPerDay) > StaleDays
      response_hours == [i \in DOMAIN issues |-> issues[i].updated_at - issues[i].created_at]
      close_hours == [i \in DOMAIN issues |-> issues[i].closed_at - issues[i].created_at]
      avg_time_to_first_response == Average(response_hours, {i \in DOMAIN issues : Commented(issues[i])})
      avg_time_to_close == Average(close_hours, {i \in DOMAIN issues : IsClosed(issues[i])})
      stale_issues == Cardinality({i \in DOMAIN issues : IsStale(issues[i])})
      open_issues == Cardinality({i \in DOMAIN issues : IsOpen(issues[i])})
      stale_issue_ratio ==
        IF open_issues > 0 THEN Rat(stale_issues, open_issues) ELSE <<0, 1>>
      first_response_score == FirstResponseScore(avg_time_to_first_response)
      stale_score == RatMul(<<10, 1>>, RatSub(<<1, 1>>, stale_issue_ratio))
      responsiveness_score ==
        RatAdd(RatMul(first_response_score, <<7, 10>>), RatMul(stale_score, <<3, 10>>))
  IN  [avg_time_to_first_response |-> Round2(avg_time_to_first_response),
       avg_time_to_close |-> Round2(avg_time_to_close),
       stale_issues |-> stale_issues,
       stale_issue_ratio |-> Round3(stale_issue_ratio),
       responsiveness_score |-> Round1(responsiveness_score)]

\* issues.py:177-233; labels are sequences of label names
analyze_issue_labels(issues) ==
  LET Labelled(issue) == issue.labels # <<>>
      issues_with_labels == Cardinality({i \in DOMAIN issues : Labelled(issues[i])})
      unique_labels == Cardinality(UNION {Range(issues[i].labels) : i \in DOMAIN issues})
      label_ratio == Rat(issues_with_labels, Len(issues))
      categorization_score ==
        IF unique_labels >= 10 /\ RatLeq(<<9, 10>>, label_ratio) THEN 10
        ELSE IF unique_labels >= 5 /\ RatLeq(<<7, 10>>, label_ratio) THEN 7
        ELSE IF unique_labels >= 3 /\ RatLeq(<<5, 10>>, label_ratio) THEN 5
        ELSE IF unique_labels > 0 THEN 3
        ELSE 0
  IN  [has_labels |-> unique_labels > 0,
       label_count |-> unique_labels,
       labeled_issue_ratio |-> Round3(label_ratio),
       categorization_score |-> categorization_score]

\* issues.py:18-56. The state, author and closure entries (lines 42, 51, 54)
\* are left out of the record: no score reads them.
calculate_issue_metrics(github_data) ==
  LET issues == github_data.issues
  IN  IF Len(issues) = 0 THEN [total_issues |-> 0]
      ELSE Update(Update([total_issues |-> Len(issues)],
                         calculate_issue_responsiveness(issues, github_data.now)),
                  analyze_issue_labels(issues))

(***************************************************************************)
(* calculate_test_metrics (metrics/tests.py). repo_info is a dict.         *)
(***************************************************************************)
\* tests.py:126-150 and 153-178: the frameworks the flags of repo_info signal
RepoFlag(repo_info, key) == key \in DOMAIN repo_info /\ repo_info[key]

test_framework_signals(repo_info) ==
  LET language == Get(repo_info, "language", "")
  IN  IF "language" \notin DOMAIN repo_info THEN {}
      ELSE IF language = "Python"
      THEN IF RepoFlag(repo_info, "has_pytest_ini") \/ RepoFlag(repo_info, "has_conftest")
           THEN {"pytest"} ELSE {}
      ELSE IF language = "JavaScript" \/ language = "TypeScript"
      THEN (IF RepoFlag(repo_info, "has_jest_config") THEN {"Jest"} ELSE {})
             \cup (IF RepoFlag(repo_info, "has_mocha_config") THEN {"Mocha"} ELSE {})
             \cup (IF RepoFlag(repo_info, "has_jasmine_config") THEN {"Jasmine"} ELSE {})
      ELSE {}

\* tests.py:70-123: has_test_directory is never set
analyze_test_patterns(repo_info) ==
  LET has_test_directory == FALSE
      signals == test_framework_signals(repo_info)
      n == Cardinality(signals)
  IN  [has_test_directory |-> has_test_directory,
       test_framework_signals |-> signals,
       testing_practice_score |->
          IF has_test_directory /\ signals # {} THEN Min(8 + n, 10)
          ELSE IF has_test_directory \/ signals # {} THEN 5 + n
          ELSE 0]

\* tests.py:44-67
analyze_tests_from_git(git_data) ==
  [test_files_count |-> git_data.test_files_count,
   has_tests |-> git_data.test_files_count > 0]

\* tests.py:15-41
calculate_test_metrics(github_data, git_data) ==
  LET from_git == IF git_data.is_none THEN EmptyDict ELSE analyze_tests_from_git(git_data)
      repo_info == github_data.repo_info
  IN  IF "default_branch" \in DOMAIN repo_info
      THEN Update(from_git, analyze_test_patterns(repo_info))
      ELSE from_git

(***************************************************************************)
(* calculate_all_metrics (analyze.py:185-300). Every calculator runs in    *)
(* its own try/except; `raising` is the set of categories whose            *)
(* calculator raises.                                                      *)
(***************************************************************************)
Categories ==
  {"contributor", "commit", "pull_request", "code_review", "ci_cd", "issue", "test"}

\* the order of the try blocks
CategoryOrder ==
  <<"contributor", "commit", "pull_request", "code_review", "ci_cd", "issue", "test">>

\* the call inside each try block
CalculatorResult(category, github_data, git_data, repo_name, core_commit_shas) ==
  CASE category = "contributor" ->
         calculate_contributor_metrics(github_data, git_data, repo_name, core_commit_shas)
    [] category = "commit" ->
         calculate_commit_metrics(github_data, git_data, repo_name, core_commit_shas)
    [] category = "pull_request" -> calculate_pr_metrics(github_data)
    [] category = "code_review" -> calculate_code_review_metrics(github_data, repo_name)
    [] category = "ci_cd" -> calculate_cicd_metrics(github_data, git_data)
    [] category = "issue" -> calculate_issue_metrics(github_data)
    [] category = "test" -> calculate_test_metrics(github_data, git_data)

\* a raise that is not caught per category: the categories after the first
\* failing one are never computed
MutNoIsolation(github_data, git_data, repo_name, core_commit_shas, raising) ==
  LET failed == {i \in DOMAIN CategoryOrder : CategoryOrder[i] \in raising}
  IN  [category \in Categories |->
         LET i == CHOOSE j \in DOMAIN CategoryOrder : CategoryOrder[j] = category
         IN  IF \E j \in failed : j <= i THEN EmptyDict
             ELSE CalculatorResult(category, github_data, git_data, repo_name,
                                   core_commit_shas)]

calculate_all_metrics(github_data, git_data, repo_name, core_commit_shas, raising) ==
  [category \in Categories |->
     IF category \in raising THEN EmptyDict
     ELSE CalculatorResult(category, github_data, git_data, repo_name, core_commit_shas)]

(***************************************************************************)
(* calculate_overall_health_score. Sub-scores are exact rationals; weights *)
(* are in hundredths; the overall score is in tenths.                      *)
(***************************************************************************)
\* corevsknots/analyze.py:309-317
weights ==
  [contributor |-> 30, commit |-> 15, pull_request |-> 15, code_review |-> 25,
   ci_cd |-> 5, issue |-> 5, test |-> 5]

\* analyze.py (first generation):250-258
legacy_weights ==
  [contributor |-> 15, commit |-> 15, pull_request |-> 15, code_review |-> 20,
   ci_cd |-> 15, issue |-> 10, test |-> 10]

\* the adjustment for many contributors without its min(10, ...)
MutContributorScoreUncapped(bus_factor, contributor_count) ==
  LET base == IF bus_factor >= 10 THEN 10
              ELSE IF bus_factor >= 5 THEN 8
              ELSE IF bus_factor >= 3 THEN 6
              ELSE IF bus_factor = 2 THEN 4
              ELSE 2
  IN  IF contributor_count >= 100 THEN base + 2
      ELSE IF contributor_count >= 50 THEN base + 1
      ELSE IF contributor_count <= 3 THEN Max(0, base - 2)
      ELSE base

\* the second threshold as `bus_factor > 5`
MutContributorScoreStrictFive(bus_factor, contributor_count) ==
  LET base == IF bus_factor >= 10 THEN 10
              ELSE IF bus_factor > 5 THEN 8
              ELSE IF bus_factor >= 3 THEN 6
              ELSE IF bus_factor = 2 THEN 4
              ELSE 2
  IN  IF contributor_count >= 100 THEN Min(10, base + 2)
      ELSE IF contributor_count >= 50 THEN Min(10, base + 1)
      ELSE IF contributor_count <= 3 THEN Max(0, base - 2)
      ELSE base

\* corevsknots/analyze.py:327-344, given the bus factor chosen at line 323
ContributorScoreFrom(bus_factor, contributor_count) ==
  LET base == IF bus_factor >= 10 THEN 10
              ELSE IF bus_factor >= 5 THEN 8
              ELSE IF bus_factor >= 3 THEN 6
              ELSE IF bus_factor = 2 THEN 4
              ELSE 2
  IN  IF contributor_count >= 100 THEN Min(10, base + 2)
      ELSE IF contributor_count >= 50 THEN Min(10, base + 1)
      ELSE IF contributor_count <= 3 THEN Max(0, base - 2)
      ELSE base

\* corevsknots/analyze.py:307, 323
ScoringBusFactor(metrics, repo_name) ==
  LET contributor_metrics == Get(metrics, "contributor", EmptyDict)
      is_knots_with_original_metrics ==
        /\ repo_name = KNOTS_REPO_IDENTIFIER
        /\ "knots_original_bus_factor" \in DOMAIN contributor_metrics
  IN  IF is_knots_with_original_metrics
      THEN contributor_metrics["knots_original_bus_factor"]
      ELSE Get(contributor_metrics, "bus_factor", 1)

\* analyze.py (first generation):263
LegacyScoringBusFactor(metrics) ==
  Get(Get(metrics, "contributor", EmptyDict), "bus_factor", 1)

\* corevsknots/analyze.py:321-346
ContributorScore(contributor_metrics, bus_factor) ==
  IF Truthy(contributor_metrics)
  THEN <<ContributorScoreFrom(bus_factor,
                              Get(contributor_metrics, "total_contributors", 0)), 1>>
  ELSE <<0, 1>>

\* corevsknots/analyze.py:348-368
CommitScore(commit_metrics) ==
  IF Truthy(commit_metrics)
  THEN LET commit_frequency == Get(commit_metrics, "commit_frequency", "inactive")
           commit_message_quality ==
             Get(Get(commit_metrics, "commit_message_quality", EmptyDict),
                 "quality_score", 0)
           base == CASE commit_frequency = "very_active" -> 10
                     [] commit_frequency = "active" -> 8
                     [] commit_frequency = "moderate" -> 6
                     [] commit_frequency = "low" -> 4
                     [] OTHER -> 2
       IN  RatAdd(Rat(base * 7, 10), RatMul(Rat(commit_message_quality, 10), <<3, 10>>))
  ELSE <<0, 1>>

\* corevsknots/analyze.py:370-378
PullRequestScore(pr) ==
  IF Truthy(pr)
  THEN LET merged_ratio == Rat(Get(pr, "merged_ratio", 0), 1000)
           pr_velocity == Rat(Get(pr, "pr_velocity_score", 0), 10)
       IN  RatAdd(RatMul(merged_ratio, <<5, 1>>), RatMul(pr_velocity, <<1, 2>>))
  ELSE <<0, 1>>

\* corevsknots/analyze.py:380-388
CodeReviewScore(review) ==
  IF Truthy(review)
  THEN LET review_thoroughness == Rat(Get(review, "review_thoroughness_score", 0), 10)
           self_merged_ratio == Rat(Get(review, "self_merged_ratio", 1000), 1000)
       IN  RatAdd(RatMul(review_thoroughness, <<7, 10>>),
                  RatMul(RatSub(<<1, 1>>, self_merged_ratio), <<3, 1>>))
  ELSE <<0, 1>>

\* corevsknots/analyze.py:390-401
CiCdScore(ci_cd) ==
  IF Truthy(ci_cd)
  THEN LET has_ci == Get(ci_cd, "has_ci", FALSE)
           success_rate == Rat(Get(ci_cd, "workflow_success_rate", 0), 1000)
       IN  IF has_ci THEN RatAdd(<<5, 1>>, RatMul(success_rate, <<5, 1>>))
           ELSE <<0, 1>>
  ELSE <<0, 1>>

\* corevsknots/analyze.py:403-411
IssueScore(issue) ==
  IF Truthy(issue)
  THEN LET responsiveness == Rat(Get(issue, "responsiveness_score", 0), 10)
           categorization == Get(issue, "categorization_score", 0)
       IN  RatAdd(RatMul(responsiveness, <<7, 10>>), Rat(categorization * 3, 10))
  ELSE <<0, 1>>

\* corevsknots/analyze.py:413-424
TestScore(test) ==
  IF Truthy(test)
  THEN IF Get(test, "has_tests", FALSE)
       THEN <<Get(test, "testing_practice_score", 0), 1>>
       ELSE <<0, 1>>
  ELSE <<0, 1>>

\* the scores dict of corevsknots/analyze.py:319-424
CategoryScores(metrics, bus_factor) ==
  [contributor |-> ContributorScore(Get(metrics, "contributor", EmptyDict), bus_factor),
   commit |-> CommitScore(Get(metrics, "commit", EmptyDict)),
   pull_request |-> PullRequestScore(Get(metrics, "pull_request", EmptyDict)),
   code_review |-> CodeReviewScore(Get(metrics, "code_review", EmptyDict)),
   ci_cd |-> CiCdScore(Get(metrics, "ci_cd", EmptyDict)),
   issue |-> IssueScore(Get(metrics, "issue", EmptyDict)),
   test |-> TestScore(Get(metrics, "test", EmptyDict))]

\* sum(scores[category] * weight) and sum(weights.values()), lines 427-430
RECURSIVE WeightedScoreSum(_, _, _)
WeightedScoreSum(scores, w, n) ==
  IF n = 0 THEN <<0, 1>>
  ELSE RatAdd(WeightedScoreSum(scores, w, n - 1),
              RatMul(scores[CategoryOrder[n]], <<w[CategoryOrder[n]], 100>>))

RECURSIVE TotalWeight(_, _)
TotalWeight(w, n) ==
  IF n = 0 THEN <<0, 1>>
  ELSE RatAdd(TotalWeight(w, n - 1), <<w[CategoryOrder[n]], 100>>)

RatDiv(p, q) == Rat(p[1] * q[2], p[2] * q[1])

\* lines 427-432
WeightedAverage(scores, w) ==
  RatDiv(WeightedScoreSum(scores, w, Len(CategoryOrder)),
         TotalWeight(w, Len(CategoryOrder)))

\* corevsknots/analyze.py:303-432
calculate_overall_health_score(metrics, repo_name) ==
  Round1(WeightedAverage(CategoryScores(metrics, ScoringBusFactor(metrics, repo_name)),
                         weights))

\* analyze.py (first generation):239-381
legacy_calculate_overall_health_score(metrics) ==
  Round1(WeightedAverage(CategoryScores(metrics, LegacyScoringBusFactor(metrics)),
                         legacy_weights))

(***************************************************************************)
(* State. One analysis run: the inputs fetched from the collaborators, the *)
(* categories whose calculator raises, the metrics dict being filled, the  *)
(* scorer's scores dict and the program position; `values` and `results`   *)
(* are the argument and the results of the inequality functions when they  *)
(* are called on their own; `comparison` is the state of one               *)
(* compare_repositories run.                                               *)
(***************************************************************************)
VARIABLES repo_name, github_data, git_data, core_commit_shas, raising, metrics,
          scores, pc, values, results, comparison, client

vars ==
  <<repo_name, github_data, git_data, core_commit_shas, raising, metrics, scores,
    pc, values, results, comparison, client>>

\* the state of a compare_repositories run (corevsknots/analyze.py:133-182)
Comparison(repo1, repo2, is_fight_mode) ==
  [repo1 |-> repo1, repo2 |-> repo2, is_fight_mode |-> is_fight_mode,
   core_shas_for_knots_comparison |-> NoneShas, core_fetches |-> 0,
   handed |-> <<>>, metrics1 |-> EmptyDict, metrics2 |-> EmptyDict]

\* the HTTP client is idle: no request made, nothing cached
NoClient == [requests |-> <<>>]

\* no comparison is running
NoComparison == Comparison("", "", FALSE)

\* all sequences over S of length at most n
BoundedSeq(S, n) == UNION {[1..k -> S] : k \in 0..n}

Repos == {CORE_REPO_IDENTIFIER, KNOTS_REPO_IDENTIFIER, OTHER_REPO_IDENTIFIER}

(***************************************************************************)
(* Input data: commits.                                                    *)
(***************************************************************************)
Commit(sha, login, name, message, date) ==
  [sha |-> sha, login |-> login, name |-> name, message |-> message, date |-> date]

\* the commits the commit lists are drawn from: SHAs inside and outside the
\* reference sets, forge logins, a free-text name only, no identity at all,
\* upstream-merge and ordinary messages
CommitUniverse ==
  {Commit("abc", "alice", "Alice", MsgWalletFix, 0),
   Commit("abc", "", "", MsgAddRpc, 0),
   Commit("def", "alice", "Alice", MsgMergeCoreRef, 24),
   Commit("def", "bob", "Bob", MsgAddRpc, 24),
   Commit("123", "", "Carol", MsgRemoteTracking, 50),
   Commit("123", "bob", "Bob", MsgWalletFix, NoDate),
   Commit("456", "", "Carol", MsgLongDescriptive, 2000)}

\* the three-commit list of the classifier's aggregate scenario
ExampleCommits ==
  <<Commit("abc", "alice", "Alice", MsgAddRpc, 0),
    Commit("def", "bob", "Bob", MsgMergeCoreRef, 24),
    Commit("123", "alice", "Alice", MsgWalletFix, 48)>>

\* four long, descriptive commits on one day
BusyDayCommits ==
  [i \in 1..4 |-> Commit("456", "alice", "Alice", MsgLongDescriptive, i)]

\* two commits a hundred days apart
SparseCommits ==
  <<Commit("abc", "alice", "Alice", MsgWalletFix, 0),
    Commit("def", "bob", "Bob", MsgMergeBranchOf, 2400)>>

CommitLists ==
  BoundedSeq(CommitUniverse, MaxCommits) \cup {ExampleCommits, BusyDayCommits, SparseCommits}

ShaOptions == {NoneShas, SomeShas({}), SomeShas({"abc"}), SomeShas({"abc", "123"})}

(***************************************************************************)
(* Input data: the forge's contributors list.                              *)
(***************************************************************************)
Contributor(login, contributions) == [login |-> login, contributions |-> contributions]

ManyContributorsCount == 50

ContributorLists ==
  {<<>>,
   <<Contributor("alice", 5)>>,
   <<Contributor("bob", 30), Contributor("alice", 50), Contributor("carol", 20)>>,
   <<Contributor("alice", 1), Contributor("bob", 1), Contributor("carol", 1),
     Contributor("dave", 1)>>,
   [i \in 1..ManyContributorsCount |-> Contributor(ToString(i), 1)]}

(***************************************************************************)
(* Input data: pull requests with their reviews, issues, CI and tests.     *)
(***************************************************************************)
PullRequest(number, state, merged, created_at, merged_at, closed_at, user, merged_by, sha) ==
  [number |-> number, state |-> state, merged |-> merged, created_at |-> created_at,
   merged_at |-> merged_at, closed_at |-> closed_at, user |-> user,
   merged_by |-> merged_by, merge_commit_sha |-> sha]

Review(user, state, submitted_at) ==
  [user |-> user, state |-> state, submitted_at |-> submitted_at]

NoPullRequests ==
  [pull_requests |-> <<>>, pr_reviews |-> EmptyDict, pr_comments |-> EmptyDict,
   commit_details |-> EmptyDict]

\* two pull requests merged within hours by someone else, each reviewed by
\* two people who asked for changes
ReviewedPullRequests ==
  [pull_requests |->
     <<PullRequest(1, "closed", TRUE, 0, 10, 10, "alice", "bob", "m1"),
       PullRequest(2, "closed", TRUE, 5, 20, 20, "bob", "carol", "m2")>>,
   pr_reviews |->
     [n \in {1, 2} |-> <<Review("carol", "CHANGES_REQUESTED", n + 1),
                         Review("dave", "APPROVED", n + 3)>>],
   pr_comments |-> [n \in {1, 2} |-> <<[user |-> "carol"]>>],
   commit_details |-> EmptyDict]

\* a slow pull request merged by its author (found through the merge commit),
\* an open one and a closed, unmerged one; one review without a date
SelfMergedPullRequests ==
  [pull_requests |->
     <<PullRequest(1, "closed", TRUE, 0, 1000, 1000, "alice", "", "m1"),
       PullRequest(2, "open", FALSE, 5, NoDate, NoDate, "bob", "", ""),
       PullRequest(3, "closed", FALSE, 5, NoDate, 30, "bob", "", "")>>,
   pr_reviews |-> [n \in {1} |-> <<Review("bob", "COMMENTED", NoDate)>>],
   pr_comments |-> EmptyDict,
   commit_details |-> [s \in {"m1"} |-> [author |-> "alice", committer |-> "web-flow"]]]

PullRequestData == {NoPullRequests, ReviewedPullRequests, SelfMergedPullRequests}

Issue(state, created_at, updated_at, closed_at, comments, labels) ==
  [state |-> state, created_at |-> created_at, updated_at |-> updated_at,
   closed_at |-> closed_at, comments |-> comments, labels |-> labels]

\* datetime.now() of the run, in hours
Now == 3000

TenLabels == <<"a", "b", "c", "d", "e", "f", "g", "h", "i", "j">>

IssueLists ==
  {<<>>,
   <<Issue("closed", 2900, 2901, 2950, 2, TenLabels),
     Issue("open", 2950, 2951, NoDate, 1, <<"a">>)>>,
   <<Issue("open", 0, 100, NoDate, 3, <<>>),
     Issue("open", 2900, 2900, NoDate, 0, <<"bug">>)>>}

WorkflowRun(conclusion) == [conclusion |-> conclusion]

NoGitData == [is_none |-> TRUE, ci_config_files |-> <<>>, test_files_count |-> 0]

GitData(ci_config_files, test_files_count) ==
  [is_none |-> FALSE, ci_config_files |-> ci_config_files,
   test_files_count |-> test_files_count]

GithubData(contributors, commits, prs, issues, workflow_runs, repo_info) ==
  [contributors |-> contributors, commits |-> commits,
   pull_requests |-> prs.pull_requests, pr_reviews |-> prs.pr_reviews,
   pr_comments |-> prs.pr_comments, commit_details |-> prs.commit_details,
   issues |-> issues, now |-> Now, workflow_runs |-> workflow_runs,
   repo_info |-> repo_info]

(***************************************************************************)
(* Specification Spec: one run of analyze_repository                       *)
(* (corevsknots/analyze.py:42-130) from the fetched data on, and the       *)
(* first-generation scorer applied to the same metrics.                    *)
(***************************************************************************)
\* at most this many calculators raise in one run
MaxRaising == 1

RaisingSets == {r \in SUBSET Categories : Cardinality(r) <= MaxRaising}

AnalysisCommitLists == {<<>>, ExampleCommits, BusyDayCommits, SparseCommits}

\* analyze.py:107: only the fork is handed the reference set
AnalysisShaOptions(repo) ==
  IF repo = KNOTS_REPO_IDENTIFIER THEN {NoneShas, SomeShas({"abc"})} ELSE {NoneShas}

\* workflow runs, the local clone's data and the forge's repository info
CiAndTestData ==
  {<<<<>>, NoGitData, EmptyDict>>,
   <<<<WorkflowRun("success"), WorkflowRun("success")>>, GitData(<<>>, 12),
     [default_branch |-> "main", language |-> "JavaScript", has_jest_config |-> TRUE,
      has_mocha_config |-> TRUE, has_jasmine_config |-> TRUE]>>,
   <<<<WorkflowRun("success"), WorkflowRun("failure"), WorkflowRun("success")>>,
     NoGitData, [default_branch |-> "master", language |-> "Python",
                 has_conftest |-> TRUE]>>,
   <<<<>>, GitData(<<".travis.yml">>, 0), [default_branch |-> "master", language |-> "C++"]>>,
   <<<<>>, GitData(<<>>, 3), [default_branch |-> "master", language |-> "Python",
                              has_pytest_ini |-> TRUE]>>}

\* what the forge and the clone hold besides contributors and commits
Forge(prs, issues, ci) ==
  [prs |-> prs, issues |-> issues, workflow_runs |-> ci[1], git_data |-> ci[2],
   repo_info |-> ci[3]]

AllForges ==
  {Forge(prs, issues, ci) :
     prs \in PullRequestData, issues \in IssueLists, ci \in CiAndTestData}

\* a forge with nothing in it
EmptyForge == Forge(NoPullRequests, <<>>, <<<<>>, NoGitData, EmptyDict>>)

\* an empty, a well-kept and a neglected forge
ForgeProfiles ==
  {EmptyForge,
   Forge(ReviewedPullRequests,
         <<Issue("closed", 2900, 2901, 2950, 2, TenLabels),
           Issue("open", 2950, 2951, NoDate, 1, <<"a">>)>>,
         <<<<WorkflowRun("success"), WorkflowRun("success")>>, GitData(<<>>, 12),
           [default_branch |-> "main", language |-> "JavaScript",
            has_jest_config |-> TRUE, has_mocha_config |-> TRUE,
            has_jasmine_config |-> TRUE]>>),
   Forge(SelfMergedPullRequests,
         <<Issue("open", 0, 100, NoDate, 3, <<>>),
           Issue("open", 2900, 2900, NoDate, 0, <<"bug">>)>>,
         <<<<>>, GitData(<<".travis.yml">>, 0),
           [default_branch |-> "master", language |-> "C++"]>>)}

\* the contributors and the commits of a repository
People(contributors, commits) == [contributors |-> contributors, commits |-> commits]

AllPeople ==
  {People(contributors, commits) :
     contributors \in ContributorLists, commits \in AnalysisCommitLists}

\* three contributors with the three-commit list
TypicalPeople ==
  People(<<Contributor("bob", 30), Contributor("alice", 50), Contributor("carol", 20)>>,
         ExampleCommits)

\* every contributor and commit input with the forge profiles, and every
\* forge input with the typical contributors and commits
AnalysisInputs ==
  (AllPeople \X ForgeProfiles) \cup ({TypicalPeople} \X AllForges)

Init ==
  /\ client = NoClient
  /\ repo_name \in Repos
  /\ core_commit_shas \in AnalysisShaOptions(repo_name)
  /\ \E input \in AnalysisInputs :
       /\ git_data = input[2].git_data
       /\ github_data = GithubData(input[1].contributors, input[1].commits,
                                   input[2].prs, input[2].issues,
                                   input[2].workflow_runs, input[2].repo_info)
  /\ raising = {}
  /\ metrics = EmptyDict
  /\ scores = EmptyDict
  /\ pc = "fetched"
  /\ values = <<>>
  /\ results = EmptyDict
  /\ comparison = NoComparison

\* analyze.py:103-109
CalculateAllMetrics ==
  /\ pc = "fetched"
  /\ \E r \in RaisingSets :
       /\ raising' = r
       /\ metrics' = calculate_all_metrics(github_data, git_data, repo_name,
                                           core_commit_shas, r)
  /\ pc' = "calculated"
  /\ UNCHANGED <<repo_name, github_data, git_data, core_commit_shas, scores, values,
                 results, comparison, client>>

\* analyze.py:127
CalculateOverallHealthScore ==
  /\ pc = "calculated"
  /\ scores' = CategoryScores(metrics, ScoringBusFactor(metrics, repo_name))
  /\ metrics' = Update(metrics,
                  [overall_health_score |->
                     calculate_overall_health_score(metrics, repo_name)])
  /\ pc' = "scored"
  /\ UNCHANGED <<repo_name, github_data, git_data, core_commit_shas, raising, values,
                 results, comparison, client>>

\* the first-generation analyze_repository's scoring step
LegacyCalculateOverallHealthScore ==
  /\ pc = "calculated"
  /\ scores' = CategoryScores(metrics, LegacyScoringBusFactor(metrics))
  /\ metrics' = Update(metrics,
                  [overall_health_score |->
                     legacy_calculate_overall_health_score(metrics)])
  /\ pc' = "scored_legacy"
  /\ UNCHANGED <<repo_name, github_data, git_data, core_commit_shas, raising, values,
                 results, comparison, client>>

Next ==
  \/ CalculateAllMetrics
  \/ CalculateOverallHealthScore
  \/ LegacyCalculateOverallHealthScore

Spec == Init /\ [][Next]_vars

(***************************************************************************)
(* Specification SpecCommits: the contributor and the commit calculator    *)
(* called on commit lists drawn from CommitUniverse, for every repository  *)
(* and every state of the reference set.  The contributors list feeds the  *)
(* per-login distribution and the commit list feeds the fork's attribution *)
(* and the commit calculator, neither reading the other: the several-      *)
(* contributor lists are paired with the short and the example commit      *)
(* lists, and every commit list with the one-contributor list.             *)
(***************************************************************************)
SeveralContributors ==
  {<<Contributor("bob", 30), Contributor("alice", 50), Contributor("carol", 20)>>,
   <<Contributor("carol", 20), Contributor("alice", 50), Contributor("bob", 20)>>}

\* two original commits, one by each of two authors
TwoAuthorsCommits ==
  <<Commit("def", "bob", "Bob", MsgAddRpc, 24),
    Commit("abc", "alice", "Alice", MsgWalletFix, 0)>>

ShortCommitLists ==
  BoundedSeq(CommitUniverse, 1)
    \cup {ExampleCommits, BusyDayCommits, SparseCommits, TwoAuthorsCommits}

InitCommits ==
  /\ client = NoClient
  /\ repo_name \in Repos
  /\ core_commit_shas \in ShaOptions
  /\ github_data \in
       {GithubData(<<Contributor("alice", 5)>>, commits, NoPullRequests, <<>>, <<>>,
                   EmptyDict) : commits \in CommitLists}
       \cup
       {GithubData(contributors, commits, NoPullRequests, <<>>, <<>>, EmptyDict) :
          contributors \in SeveralContributors, commits \in ShortCommitLists}
  /\ git_data = NoGitData
  /\ raising = {}
  /\ metrics = EmptyDict
  /\ scores = EmptyDict
  /\ pc = "fetched"
  /\ values = <<>>
  /\ results = EmptyDict
  /\ comparison = NoComparison

\* analyze.py:231-233
CalculateContributorMetrics ==
  /\ "contributor" \notin DOMAIN metrics
  /\ metrics' = Update(metrics,
                  [contributor |->
                     calculate_contributor_metrics(github_data, git_data, repo_name,
                                                   core_commit_shas)])
  /\ UNCHANGED <<repo_name, github_data, git_data, core_commit_shas, raising, scores,
                 pc, values, results, comparison, client>>

\* analyze.py:242-244
CalculateCommitMetrics ==
  /\ "commit" \notin DOMAIN metrics
  /\ metrics' = Update(metrics,
                  [commit |->
                     calculate_commit_metrics(github_data, git_data, repo_name,
                                              core_commit_shas)])
  /\ UNCHANGED <<repo_name, github_data, git_data, core_commit_shas, raising, scores,
                 pc, values, results, comparison, client>>

NextCommits ==
  \/ CalculateContributorMetrics
  \/ CalculateCommitMetrics

SpecCommits == InitCommits /\ [][NextCommits]_vars

(***************************************************************************)
(* Specification SpecInequality: calculate_gini_coefficient and            *)
(* calculate_bus_factor called on lists of counts.                         *)
(***************************************************************************)
\* the lists of the worked examples
ExampleValues == {<<10, 10, 10, 10>>, <<40, 0, 0, 0>>, <<0, 40, 0, 0>>, <<50, 30, 20>>,
                  <<20, 50, 30>>, <<3, 3, 3, 3, 3>>, <<1, 1, 1, 1, 1, 1>>,
                  <<2, 2, 2, 2, 2, 2, 2>>, <<1, 1, 1, 1, 1>>, <<3, 1, 1, 0, 0>>}

ValueLists == BoundedSeq(0..MaxCount, MaxValues) \cup ExampleValues

\* the author of the i-th count
AuthorName(i) == ToString(i)

\* contributor.py:71-75, 130: the (author, count) pairs sorted by count
\* descending, as every caller of calculate_bus_factor builds them
ContributorsByCommits(counts) ==
  SortByCountDesc([i \in DOMAIN counts |-> <<AuthorName(i), counts[i]>>])

InitInequality ==
  /\ client = NoClient
  /\ values \in ValueLists
  /\ results = EmptyDict
  /\ repo_name = OTHER_REPO_IDENTIFIER
  /\ core_commit_shas = NoneShas
  /\ github_data = GithubData(<<>>, <<>>, NoPullRequests, <<>>, <<>>, EmptyDict)
  /\ git_data = NoGitData
  /\ raising = {}
  /\ metrics = EmptyDict
  /\ scores = EmptyDict
  /\ pc = "fetched"
  /\ comparison = NoComparison

\* contributor.py:135, 145, 165
CalculateGiniCoefficient ==
  /\ "gini" \notin DOMAIN results
  /\ results' = Update(results, [gini |-> calculate_gini_coefficient(values)])
  /\ UNCHANGED <<repo_name, github_data, git_data, core_commit_shas, raising, metrics,
                 scores, pc, values, comparison, client>>

\* contributor.py:136, 146, 170
CalculateBusFactor ==
  /\ "bus_factor" \notin DOMAIN results
  /\ results' = Update(results,
                  [bus_factor |-> calculate_bus_factor(ContributorsByCommits(values))])
  /\ UNCHANGED <<repo_name, github_data, git_data, core_commit_shas, raising, metrics,
                 scores, pc, values, comparison, client>>

NextInequality ==
  \/ CalculateGiniCoefficient
  \/ CalculateBusFactor

SpecInequality == InitInequality /\ [][NextInequality]_vars

(***************************************************************************)
(* Specification SpecCompare: compare_repositories                         *)
(* (corevsknots/analyze.py:133-182). `comparison` holds the arguments      *)
(* repo1, repo2 and is_fight_mode, the local                               *)
(* core_shas_for_knots_comparison, the number of times the upstream        *)
(* commits were fetched for it, the arguments each analysis was called     *)
(* with, and metrics1 and metrics2.                                        *)
(***************************************************************************)
\* what get_commits returns for the upstream repository; a commit whose sha
\* is "" has no 'sha' key
CoreCommitsData ==
  {<<>>,
   ExampleCommits,
   <<Commit("abc", "alice", "Alice", MsgAddRpc, 0),
     Commit("", "bob", "Bob", MsgWalletFix, 24),
     Commit("abc", "alice", "Alice", MsgAddRpc, 0)>>}

\* analyze.py:38
get_core_commit_shas_for_period(core_commits_data) ==
  SomeShas({core_commits_data[i].sha :
              i \in {j \in DOMAIN core_commits_data : core_commits_data[j].sha # ""}})

\* what the forge and the clone return for a repository under comparison
CompareInputs ==
  {<<People(<<>>, <<>>), EmptyForge>>} \cup ({TypicalPeople} \X (ForgeProfiles \ {EmptyForge}))

\* analyze.py:103-130: the metrics of calculate_all_metrics for the fetched
\* data, with the overall score added (line 127)
analyze_repository(repo, fetched_github_data, fetched_git_data, handed) ==
  LET calculated == calculate_all_metrics(fetched_github_data, fetched_git_data,
                                          repo, handed, {})
  IN  Update(calculated,
             [overall_health_score |-> calculate_overall_health_score(calculated, repo)])

InitCompare ==
  /\ client = NoClient
  /\ comparison \in {Comparison(repo1, repo2, is_fight_mode) :
                       repo1 \in Repos, repo2 \in Repos, is_fight_mode \in BOOLEAN}
  /\ pc = "comparing"
  /\ repo_name = ""
  /\ core_commit_shas = NoneShas
  /\ github_data = GithubData(<<>>, <<>>, NoPullRequests, <<>>, <<>>, EmptyDict)
  /\ git_data = NoGitData
  /\ raising = {}
  /\ metrics = EmptyDict
  /\ scores = EmptyDict
  /\ values = <<>>
  /\ results = EmptyDict

\* analyze.py:162
FetchesCoreShas ==
  \/ comparison.is_fight_mode
  \/ comparison.repo1 = CORE_REPO_IDENTIFIER /\ comparison.repo2 = KNOTS_REPO_IDENTIFIER

\* analyze.py:161-163, the condition true
GetCoreCommitShasForPeriod ==
  /\ pc = "comparing"
  /\ FetchesCoreShas
  /\ \E core_commits_data \in CoreCommitsData :
       comparison' =
         [comparison EXCEPT
            !.core_shas_for_knots_comparison =
               get_core_commit_shas_for_period(core_commits_data),
            !.core_fetches = @ + 1]
  /\ pc' = "ready"
  /\ UNCHANGED <<repo_name, github_data, git_data, core_commit_shas, raising, metrics,
                 scores, values, results, client>>

\* analyze.py:161-162, the condition false
KeepNoCoreShas ==
  /\ pc = "comparing"
  /\ ~FetchesCoreShas
  /\ pc' = "ready"
  /\ UNCHANGED <<repo_name, github_data, git_data, core_commit_shas, raising, metrics,
                 scores, values, results, comparison, client>>

\* the analyze_repository call of lines 165-166 (first = TRUE) or 167-168:
\* the data is fetched (lines 76-99), calculate_all_metrics is handed the
\* reference set only for the fork (line 107), and the result is kept as
\* metrics1 or metrics2
AnalyzeCompared(first) ==
  LET repo == IF first THEN comparison.repo1 ELSE comparison.repo2
      core_commit_shas_for_knots ==
        IF repo = KNOTS_REPO_IDENTIFIER
        THEN comparison.core_shas_for_knots_comparison
        ELSE NoneShas
  IN  /\ repo_name' = repo
      /\ \E input \in CompareInputs :
           /\ github_data' = GithubData(input[1].contributors, input[1].commits,
                                        input[2].prs, input[2].issues,
                                        input[2].workflow_runs, input[2].repo_info)
           /\ git_data' = input[2].git_data
      /\ core_commit_shas' = IF repo = KNOTS_REPO_IDENTIFIER
                             THEN core_commit_shas_for_knots
                             ELSE NoneShas
      /\ metrics' = analyze_repository(repo, github_data', git_data', core_commit_shas')
      /\ scores' = CategoryScores(metrics', ScoringBusFactor(metrics', repo))
      /\ comparison' =
           LET call == [repo |-> repo,
                        core_commit_shas_for_knots |-> core_commit_shas_for_knots,
                        core_commit_shas |-> core_commit_shas']
           IN  IF first
               THEN [comparison EXCEPT !.handed = Append(@, call),
                                       !.metrics1 = metrics']
               ELSE [comparison EXCEPT !.handed = Append(@, call),
                                       !.metrics2 = metrics']

\* analyze.py:165-166
AnalyzeRepository1 ==
  /\ pc = "ready"
  /\ AnalyzeCompared(TRUE)
  /\ pc' = "analysed1"
  /\ UNCHANGED <<raising, values, results, client>>

\* analyze.py:167-168
AnalyzeRepository2 ==
  /\ pc = "analysed1"
  /\ AnalyzeCompared(FALSE)
  /\ pc' = "analysed2"
  /\ UNCHANGED <<raising, values, results, client>>

NextCompare ==
  \/ GetCoreCommitShasForPeriod
  \/ KeepNoCoreShas
  \/ AnalyzeRepository1
  \/ AnalyzeRepository2

SpecCompare == InitCompare /\ [][NextCompare]_vars

(***************************************************************************)
(* Properties.                                                             *)
(***************************************************************************)
\* the fork's per-author ORIGINAL counts as the contributor record reports them
OriginalPairs == Get(Get(metrics, "contributor", EmptyDict),
                     "knots_contributors_by_original_commits", <<>>)

\* the count a list of (author, count) pairs gives an author
CountFor(pairs, author) ==
  IF \E i \in DOMAIN pairs : pairs[i][1] = author
  THEN pairs[CHOOSE i \in DOMAIN pairs : pairs[i][1] = author][2]
  ELSE 0

Authors == {AuthorLogin(github_data.commits[i]) : i \in DOMAIN github_data.commits} \ {""}

\* the positions of the commits whose SHA is in the supplied reference set
Referenced ==
  {i \in DOMAIN github_data.commits :
     (~core_commit_shas.is_none) /\ github_data.commits[i].sha \in core_commit_shas.shas}

ForkWithReferenceSet ==
  repo_name = KNOTS_REPO_IDENTIFIER /\ ~core_commit_shas.is_none

ContributorDone == "contributor" \in DOMAIN metrics /\ pc = "fetched"

CommitDone == "commit" \in DOMAIN metrics /\ pc = "fetched"

\* C1: for the fork with a reference set supplied, a commit whose SHA is in
\* the set is UPSTREAM_MERGED whatever its message: no author's ORIGINAL count
\* exceeds the number of that author's commits outside the set, the author of
\* every attributed commit inside the set is counted among the core-merge
\* authors, and the commit calculator keeps no more originals than there are
\* commits outside the set. (A commit without any author identity is skipped
\* by the contributor calculator and is in neither bucket.)
C1_ReferencedShaIsUpstreamMerged ==
  ForkWithReferenceSet =>
    LET commits == github_data.commits
        OutsideBy(author) ==
          {i \in DOMAIN commits \ Referenced : AuthorLogin(commits[i]) = author}
        referenced_authors == {AuthorLogin(commits[i]) : i \in Referenced} \ {""}
    IN  /\ (ContributorDone /\ commits # <<>>) =>
              /\ \A author \in Authors :
                   CountFor(OriginalPairs, author) <= Cardinality(OutsideBy(author))
              /\ \A i \in DOMAIN OriginalPairs : OriginalPairs[i][1] \in Authors
              /\ metrics["contributor"]["core_merge_commit_authors_count"]
                   >= Cardinality(referenced_authors)
              /\ (Referenced = DOMAIN commits) =>
                   /\ OriginalPairs = <<>>
                   /\ metrics["contributor"]["knots_original_bus_factor"] = 0
        /\ CommitDone =>
              metrics["commit"]["original_commits_in_period"]
                <= Len(commits) - Cardinality(Referenced)

\* C1 witness: the fork, a commit by alice whose SHA is in the reference set
\* and whose message is an ordinary one, both calculators done
C1_Witness ==
  /\ ForkWithReferenceSet
  /\ ContributorDone /\ CommitDone
  /\ \E i \in Referenced :
       /\ AuthorLogin(github_data.commits[i]) = "alice"
       /\ github_data.commits[i].message = MsgWalletFix
  /\ CountFor(OriginalPairs, "alice") = 0
  /\ metrics["contributor"]["core_merge_commit_authors_count"] >= 1

\* the label the ordered rule gives a fork commit
RuleLabel(commit) ==
  IF (~core_commit_shas.is_none) /\ commit.sha \in core_commit_shas.shas
  THEN "UPSTREAM_MERGED"
  ELSE IF is_core_merge_commit(commit.message) THEN "UPSTREAM_MERGED"
  ELSE "ORIGINAL"

\* C2: every attributed fork commit is counted under exactly the label the
\* ordered rule gives it (SHA in the reference set, else an upstream-merge
\* message, else ORIGINAL): each author's ORIGINAL count is the number of that
\* author's commits the rule labels ORIGINAL, and the core-merge authors are
\* the authors of the commits it labels UPSTREAM_MERGED. The worked examples:
\* "Merge remote-tracking branch 'upstream/master' into feature" is an
\* upstream merge, "Add new RPC command" is not, and the three-commit list
\* gives 1 ORIGINAL and 2 UPSTREAM_MERGED.
C2_OrderedRuleDecidesTheLabel ==
  /\ is_core_merge_commit(MsgRemoteTracking)
  /\ ~is_core_merge_commit(MsgAddRpc)
  /\ (repo_name = KNOTS_REPO_IDENTIFIER /\ ContributorDone /\ github_data.commits # <<>>) =>
       LET commits == github_data.commits
           LabelledBy(author, label) ==
             {i \in DOMAIN commits :
                AuthorLogin(commits[i]) = author /\ RuleLabel(commits[i]) = label}
           merge_authors ==
             {author \in Authors : LabelledBy(author, "UPSTREAM_MERGED") # {}}
       IN  /\ \A author \in Authors :
                CountFor(OriginalPairs, author)
                  = Cardinality(LabelledBy(author, "ORIGINAL"))
           /\ \A i \in DOMAIN OriginalPairs : OriginalPairs[i][1] \in Authors
           /\ metrics["contributor"]["core_merge_commit_authors_count"]
                = Cardinality(merge_authors)
           /\ (commits = ExampleCommits /\ core_commit_shas = SomeShas({"abc"})) =>
                /\ OriginalPairs = << <<"alice", 1>> >>
                /\ metrics["contributor"]["core_merge_commit_authors_count"] = 2

\* C2 witness: the three-commit list classified for the fork
C2_Witness ==
  /\ repo_name = KNOTS_REPO_IDENTIFIER
  /\ github_data.commits = ExampleCommits
  /\ core_commit_shas = SomeShas({"abc"})
  /\ ContributorDone
  /\ OriginalPairs = << <<"alice", 1>> >>

\* C3: for the fork, whatever the state of the reference set, the commit
\* calculator keeps exactly the commits the contributor calculator's
\* classifier labels ORIGINAL (compared on lists whose commits all carry an
\* author identity, where the contributor calculator counts every commit)
C3_CalculatorsAgreeOnOriginals ==
  (/\ repo_name = KNOTS_REPO_IDENTIFIER
   /\ ContributorDone /\ CommitDone
   /\ github_data.commits # <<>>
   /\ \A i \in DOMAIN github_data.commits : AuthorLogin(github_data.commits[i]) # "") =>
     metrics["commit"]["original_commits_in_period"]
       = SumSeq(Counts(OriginalPairs))

\* the permutations of a sequence
Perms(s) == {[i \in DOMAIN s |-> s[f[i]]] : f \in Permutations(DOMAIN s)}

\* max(0, 2G/(nT) - 1 - 1/n) over the ascending arrangement of the values
GiniFormula(vs) ==
  LET n == Len(vs)
      T == SumSeq(vs)
      asc == CHOOSE s \in Perms(vs) : \A i \in 1..(n - 1) : s[i] <= s[i + 1]
      G == SumSeq([i \in 1..n |-> i * asc[i]])
  IN  IF n = 0 \/ T = 0 THEN <<0, 1>>
      ELSE RatMax(<<0, 1>>, RatSub(RatSub(Rat(2 * G, n * T), <<1, 1>>), Rat(1, n)))

\* C4: calculate_gini_coefficient returns max(0, 2G/(nT) - 1 - 1/n) over the
\* values sorted ascending, 0 for an empty list or a zero total, and the same
\* value for every permutation of its input; [10,10,10,10] gives 0 and
\* [40,0,0,0] gives 0.75
C4_GiniFormulaAndPermutationInvariance ==
  ("gini" \in DOMAIN results) =>
     /\ results["gini"] = GiniFormula(values)
     /\ \A p \in Perms(values) : calculate_gini_coefficient(p) = results["gini"]
     /\ (values = <<>> \/ SumSeq(values) = 0) => results["gini"] = <<0, 1>>
     /\ values = <<10, 10, 10, 10>> => results["gini"] = <<0, 1>>
     /\ values \in Perms(<<40, 0, 0, 0>>) => results["gini"] = <<3, 4>>

\* C4 witness: the Gini of an unsorted list that is not 0
C4_Witness ==
  /\ "gini" \in DOMAIN results
  /\ values = <<0, 40, 0, 0>>
  /\ results["gini"] = <<3, 4>>

\* the authors of a non-fork repository's attributed commits that are not
\* upstream merges by message: the distribution its contributor_gini is
\* computed from when it is not empty
CoreLikeAuthors ==
  {AuthorLogin(github_data.commits[i]) :
     i \in {j \in DOMAIN github_data.commits :
              ~is_core_merge_commit(github_data.commits[j].message)}} \ {""}

\* C5: a Gini reported for a distribution of exactly one contributor is 1.0:
\* the fork's original-work Gini when one author has original commits, and
\* contributor_gini of any repository, whether it is computed from the one
\* author of the repository's own commits or from the one contributor the
\* forge lists
C5_SingleContributorGiniIsOne ==
  (ContributorDone /\ Truthy(github_data.contributors)) =>
    LET contributor == metrics["contributor"]
        is_knots_repo == repo_name = KNOTS_REPO_IDENTIFIER
    IN  /\ (is_knots_repo /\ Len(OriginalPairs) = 1) =>
             contributor["knots_original_contributor_gini"] = <<1, 1>>
        /\ ((~is_knots_repo) /\ Cardinality(CoreLikeAuthors) = 1) =>
             contributor["contributor_gini"] = <<1, 1>>
        /\ (/\ contributor["total_contributors"] = 1
            /\ is_knots_repo \/ github_data.commits = <<>>) =>
             contributor["contributor_gini"] = <<1, 1>>

\* the sum of the first j counts of a list of (author, count) pairs
PrefixSum(pairs, j) == SumSeq(Counts(SubSeq(pairs, 1, j)))

\* C6: on a distribution sorted by count descending with total T > 0 the bus
\* factor k is the least number of top contributors whose counts sum to at
\* least 0.8 T: the first k sum to >= 0.8 T and, if k > 1, the first k - 1 to
\* less; [(A,50),(B,30),(C,20)] gives 2
C6_BusFactorIsMinimalCover ==
  ("bus_factor" \in DOMAIN results /\ SumSeq(values) > 0) =>
     LET pairs == ContributorsByCommits(values)
         T == SumSeq(values)
         k == results["bus_factor"]
     IN  /\ k \in 1..Len(pairs)
         /\ 5 * PrefixSum(pairs, k) >= 4 * T
         /\ k > 1 => 5 * PrefixSum(pairs, k - 1) < 4 * T
         /\ \A j \in 1..Len(pairs) : 5 * PrefixSum(pairs, j) >= 4 * T => k <= j
         /\ values \in Perms(<<50, 30, 20>>) => k = 2

\* C6 witness: the worked example, handed over unsorted
C6_Witness ==
  /\ "bus_factor" \in DOMAIN results
  /\ values = <<20, 50, 30>>
  /\ results["bus_factor"] = 2

Scored == pc \in {"scored", "scored_legacy"}

\* zero contributors, commits, pull requests and issues, no CI and no tests
IsEmptyRepository ==
  /\ github_data.contributors = <<>>
  /\ github_data.commits = <<>>
  /\ github_data.pull_requests = <<>>
  /\ github_data.issues = <<>>
  /\ github_data.workflow_runs = <<>>
  /\ ~has_ci_configs(git_data)
  /\ git_data.test_files_count = 0

\* C7: scoring an empty repository gives 0 in every category and 0 overall
C7_EmptyRepositoryScoresZero ==
  (Scored /\ raising = {} /\ IsEmptyRepository) =>
     /\ \A category \in Categories : scores[category] = <<0, 1>>
     /\ metrics["overall_health_score"] = 0

\* the weight table of the scorer that ran
WeightsUsed == IF pc = "scored_legacy" THEN legacy_weights ELSE weights

\* C8: every sub-score lies in [0, 10], and the overall score is the weighted
\* mean sum(sub-score * weight) / sum(weights) rounded to one decimal (it is
\* a whole number of tenths within 0.05 of the mean), hence in [0, 10]
C8_ScoresInRangeAndWeightedMean ==
  Scored =>
    LET w == WeightsUsed
        Term(category) == RatMul(scores[category], <<w[category], 1>>)
        weighted ==
          RatAdd(Term("contributor"),
          RatAdd(Term("commit"),
          RatAdd(Term("pull_request"),
          RatAdd(Term("code_review"),
          RatAdd(Term("ci_cd"), RatAdd(Term("issue"), Term("test")))))))
        total == w["contributor"] + w["commit"] + w["pull_request"] + w["code_review"]
                   + w["ci_cd"] + w["issue"] + w["test"]
        mean == RatMul(weighted, <<1, total>>)
        overall == metrics["overall_health_score"]
        gap == RatSub(<<overall, 10>>, mean)
    IN  /\ \A category \in Categories :
             /\ RatLeq(<<0, 1>>, scores[category])
             /\ RatLeq(scores[category], <<10, 1>>)
        /\ overall \in 0..100
        /\ RatLeq(gap, <<1, 20>>)
        /\ RatLeq(<<-1, 20>>, gap)

\* C8 witness: a scored run in which the contributor sub-score is held at 10
\* by the cap and the overall score is positive
C8_Witness ==
  /\ pc = "scored"
  /\ Len(github_data.contributors) >= 50
  /\ scores["contributor"] = <<10, 1>>
  /\ RatLess(<<0, 1>>, scores["commit"])
  /\ metrics["overall_health_score"] > 0

\* two dicts with the same keys and the same values
SameDict(a, b) == DOMAIN a = DOMAIN b /\ \A key \in DOMAIN a : a[key] = b[key]

\* C9: whichever calculators raise, calculate_all_metrics returns a record for
\* all seven categories: a failing category's record is empty and scores 0,
\* every other category's record and sub-score are those of the run in which
\* nothing fails, and the scorer still produces an overall score
C9_FailureIsolatedPerCategory ==
  (pc # "fetched") =>
    LET clean == calculate_all_metrics(github_data, git_data, repo_name,
                                       core_commit_shas, {})
        clean_scores ==
          CategoryScores(clean,
            IF pc = "scored_legacy" THEN LegacyScoringBusFactor(clean)
            ELSE ScoringBusFactor(clean, repo_name))
    IN  /\ Categories \subseteq DOMAIN metrics
        /\ \A category \in raising :
             /\ ~Truthy(metrics[category])
             /\ Scored => scores[category] = <<0, 1>>
        /\ \A category \in Categories \ raising :
             /\ SameDict(metrics[category], clean[category])
             /\ Scored => scores[category] = clean_scores[category]
        /\ Scored => metrics["overall_health_score"] \in 0..100

\* C9 witness: the commit calculator raised, the pull-request record is
\* there all the same and the run was scored above 0
C9_Witness ==
  /\ pc = "scored"
  /\ raising = {"commit"}
  /\ ~Truthy(metrics["commit"])
  /\ Truthy(metrics["pull_request"])
  /\ RatLess(<<0, 1>>, scores["pull_request"])
  /\ metrics["overall_health_score"] > 0

\* C10: the fork's contributor sub-score is derived from its ORIGINAL-only
\* bus factor (0 when it has no original commits in the window), every other
\* repository's from the general bus factor
C10_ForkScoredOnOriginalBusFactor ==
  (pc = "scored" /\ Truthy(metrics["contributor"])) =>
    LET contributor == metrics["contributor"]
        expected_bus_factor ==
          IF repo_name = KNOTS_REPO_IDENTIFIER
          THEN Get(contributor, "knots_original_bus_factor", 0)
          ELSE Get(contributor, "bus_factor", 1)
    IN  scores["contributor"]
          = <<ContributorScoreFrom(expected_bus_factor,
                                   contributor["total_contributors"]), 1>>

\* the standard weight table, in hundredths
StandardWeightTable ==
  [contributor |-> 15, commit |-> 15, pull_request |-> 15, code_review |-> 20,
   ci_cd |-> 15, issue |-> 10, test |-> 10]

\* the fork-aware weight table, in hundredths
ForkWeightTable ==
  [contributor |-> 30, commit |-> 15, pull_request |-> 15, code_review |-> 25,
   ci_cd |-> 5, issue |-> 5, test |-> 5]

\* the fork scored by the fork-aware scorer on its original-work metrics
ScoredInForkAwareMode ==
  /\ pc = "scored"
  /\ repo_name = KNOTS_REPO_IDENTIFIER
  /\ "knots_original_bus_factor" \in DOMAIN Get(metrics, "contributor", EmptyDict)

\* C11: each weight table sums to 1.0, and the overall score of a scored run
\* is the weighted mean of its sub-scores under the fork-aware table when the
\* fork is scored in fork-aware mode and under the standard table for every
\* other repository
C11_WeightTableByMode ==
  Scored =>
    LET expected == IF ScoredInForkAwareMode THEN ForkWeightTable
                    ELSE StandardWeightTable
    IN  /\ TotalWeight(StandardWeightTable, Len(CategoryOrder)) = <<1, 1>>
        /\ TotalWeight(ForkWeightTable, Len(CategoryOrder)) = <<1, 1>>
        /\ metrics["overall_health_score"] = Round1(WeightedAverage(scores, expected))

\* one of the two compared repositories is the fork
ForkCompared ==
  KNOTS_REPO_IDENTIFIER \in {comparison.repo1, comparison.repo2}

\* the comparison is past lines 161-163
PastCoreShasFetch == pc \in {"ready", "analysed1", "analysed2"}

\* C12: in a comparison run that involves the fork, once the run is past
\* the fetch and before either analysis the upstream commits have been
\* fetched exactly once and the reference set is built; every analysis of
\* the fork was handed that set, which is still the set that was built, and
\* every analysis of another repository was handed none
C12_ReferenceSetFetchedOnceForForkOnly ==
  (ForkCompared /\ PastCoreShasFetch) =>
    /\ comparison.core_fetches = 1
    /\ ~comparison.core_shas_for_knots_comparison.is_none
    /\ \A i \in DOMAIN comparison.handed :
         LET call == comparison.handed[i]
         IN  IF call.repo = KNOTS_REPO_IDENTIFIER
             THEN /\ call.core_commit_shas_for_knots
                       = comparison.core_shas_for_knots_comparison
                  /\ call.core_commit_shas = comparison.core_shas_for_knots_comparison
             ELSE /\ call.core_commit_shas_for_knots.is_none
                  /\ call.core_commit_shas.is_none

\* the counters the loop of contributor.py:91-118 leaves behind
FoldedCounters ==
  ContributorLoop(github_data.commits, Len(github_data.commits),
                  repo_name = KNOTS_REPO_IDENTIFIER, core_commit_shas)

\* the positions of the commits with a resolvable author identity
Attributed ==
  {i \in DOMAIN github_data.commits : AuthorLogin(github_data.commits[i]) # ""}

\* the attributed commits the fork's classifier labels UPSTREAM_MERGED
AttributedMerged ==
  {i \in Attributed : IsMergedFromCore(github_data.commits[i], core_commit_shas)}

\* the attributed commits a non-fork repository counts
AttributedCounted ==
  {i \in Attributed : ~is_core_merge_commit(github_data.commits[i].message)}

\* pairs holds one entry per distinct author of the commits at the positions
\* in folded, with that author's number of those commits
IsDistributionOf(pairs, folded) ==
  /\ \A i, j \in DOMAIN pairs : pairs[i][1] = pairs[j][1] => i = j
  /\ {pairs[i][1] : i \in DOMAIN pairs}
       = {AuthorLogin(github_data.commits[k]) : k \in folded}
  /\ \A i \in DOMAIN pairs :
       pairs[i][2]
         = Cardinality({k \in folded :
                          AuthorLogin(github_data.commits[k]) = pairs[i][1]})
  /\ SumSeq(Counts(pairs)) = Cardinality(folded)

\* C13: after the fold each bucket's distribution has exactly one entry per
\* distinct author and its counts sum to the number of commits folded into
\* the bucket; for the fork the ORIGINAL and UPSTREAM_MERGED totals add up to
\* the number of commits with a resolvable author identity, and the emitted
\* original-work distribution is such a distribution too
C13_BucketsCountEveryFoldedCommitOnce ==
  ContributorDone =>
    LET acc == FoldedCounters
        original == acc.knots_author_original_commit_counts
        merged == acc.knots_author_core_merge_commit_counts
    IN  IF repo_name = KNOTS_REPO_IDENTIFIER
        THEN /\ IsDistributionOf(original, Attributed \ AttributedMerged)
             /\ IsDistributionOf(merged, AttributedMerged)
             /\ SumSeq(Counts(original)) + SumSeq(Counts(merged))
                  = Cardinality(Attributed)
             /\ IsDistributionOf(OriginalPairs, Attributed \ AttributedMerged)
        ELSE IsDistributionOf(acc.non_knots_author_commit_counts, AttributedCounted)

\* C13 witness: the fork's fold of three commits has put two commits of one
\* author in ORIGINAL and one commit of another author in UPSTREAM_MERGED
C13_Witness ==
  /\ ContributorDone
  /\ repo_name = KNOTS_REPO_IDENTIFIER
  /\ Len(github_data.commits) = 3
  /\ OriginalPairs = <<<<"alice", 2>>>>
  /\ FoldedCounters.knots_author_core_merge_commit_counts = <<<<"bob", 1>>>>

\* the forge login when present, otherwise the free-text author name; ""
\* when the commit has neither
Identity(commit) == IF commit.login # "" THEN commit.login ELSE commit.name

\* the identities of the commits of a list that have one
Identities(commits) == {Identity(commits[i]) : i \in DOMAIN commits} \ {""}

\* the positions of an author's commits
CommitsBy(commits, author) == {i \in DOMAIN commits : Identity(commits[i]) = author}

\* C14: a commit is attributed to its forge login, else to its free-text
\* author name; a commit with neither is in no author set and no count, both
\* calculators still return their record, and every commit that has an
\* identity is aggregated under it: the active authors are exactly the
\* identities, the fork's two buckets together (any other repository's
\* counter) hold each author's commits, and the commit calculator's unique
\* authors and top-author counts are those of its original commits
C14_AuthorIdentityResolution ==
  LET commits == github_data.commits
      identities == Identities(commits)
  IN  /\ ContributorDone =>
           LET contributor == metrics["contributor"]
               acc == FoldedCounters
               original == acc.knots_author_original_commit_counts
               merged == acc.knots_author_core_merge_commit_counts
               counted == acc.non_knots_author_commit_counts
           IN  /\ "total_contributors" \in DOMAIN contributor
               /\ contributor["active_contributors"] = Cardinality(identities)
               /\ acc.all_commit_authors_in_period = identities
               /\ IF repo_name = KNOTS_REPO_IDENTIFIER
                  THEN /\ CounterKeys(original) \cup CounterKeys(merged) = identities
                       /\ acc.knots_original_commit_authors = CounterKeys(original)
                       /\ acc.core_merge_commit_authors = CounterKeys(merged)
                       /\ \A author \in identities :
                            CountFor(original, author) + CountFor(merged, author)
                              = Cardinality(CommitsBy(commits, author))
                  ELSE /\ CounterKeys(counted) \subseteq identities
                       /\ \A author \in identities :
                            CountFor(counted, author)
                              = Cardinality(
                                  {i \in CommitsBy(commits, author) :
                                     ~is_core_merge_commit(commits[i].message)})
      /\ CommitDone =>
           LET commit == metrics["commit"]
               originals == original_commits_for_repo(commits, repo_name,
                                                      core_commit_shas)
           IN  /\ commit["total_commits_in_period"] = Len(commits)
               /\ originals # <<>> =>
                    /\ commit["unique_authors"] = Cardinality(Identities(originals))
                    /\ \A i \in DOMAIN commit["top_authors"] :
                         LET pair == commit["top_authors"][i]
                         IN  /\ pair[1] \in Identities(originals)
                             /\ pair[2] = Cardinality(CommitsBy(originals, pair[1]))

\* C14 witness: both calculators have run on a list of one commit without
\* login and name and one commit with a free-text author name only, and each
\* reports the one author
C14_Witness ==
  /\ ContributorDone
  /\ CommitDone
  /\ Len(github_data.commits) = 2
  /\ \E i \in DOMAIN github_data.commits :
       github_data.commits[i].login = "" /\ github_data.commits[i].name = ""
  /\ \E i \in DOMAIN github_data.commits :
       github_data.commits[i].login = "" /\ github_data.commits[i].name = "Carol"
  /\ metrics["contributor"]["active_contributors"] = 1
  /\ metrics["commit"]["unique_authors"] = 1
  /\ metrics["commit"]["top_authors"] = <<<<"Carol", 1>>>>

\* the fork's figures that do not depend on the order of the commits
OrderFreeKeys ==
  {"knots_original_commit_authors_count", "core_merge_commit_authors_count",
   "knots_contributors_only_merging_core", "knots_contributors_with_original_work",
   "knots_original_contributor_gini", "knots_original_bus_factor"}

\* C15: for the fork, whatever the order of the commits, the per-author
\* ORIGINAL and UPSTREAM_MERGED counts, the sizes of the merge-only and the
\* original-author sets, the original-work Gini and the original-work bus
\* factor are the same; the emitted distribution has the same counts at the
\* same positions, so only authors of equal count can change places
C15_CommitOrderDoesNotMatter ==
  (ContributorDone /\ repo_name = KNOTS_REPO_IDENTIFIER /\ github_data.commits # <<>>) =>
    \A permuted \in Perms(github_data.commits) :
      LET contributor == metrics["contributor"]
          other ==
            calculate_contributor_metrics([github_data EXCEPT !.commits = permuted],
                                          git_data, repo_name, core_commit_shas)
          acc == FoldedCounters
          other_acc == ContributorLoop(permuted, Len(permuted), TRUE, core_commit_shas)
          pairs == contributor["knots_contributors_by_original_commits"]
          other_pairs == other["knots_contributors_by_original_commits"]
      IN  /\ \A key \in OrderFreeKeys : other[key] = contributor[key]
          /\ Counts(other_pairs) = Counts(pairs)
          /\ \A author \in Authors :
               /\ CountFor(other_pairs, author) = CountFor(pairs, author)
               /\ CountFor(other_acc.knots_author_original_commit_counts, author)
                    = CountFor(acc.knots_author_original_commit_counts, author)
               /\ CountFor(other_acc.knots_author_core_merge_commit_counts, author)
                    = CountFor(acc.knots_author_core_merge_commit_counts, author)

\* C15 witness: the fork's aggregation of a list in which one author has an
\* upstream-merged commit before an original one, and another author comes
\* between them
C15_Witness ==
  /\ ContributorDone
  /\ repo_name = KNOTS_REPO_IDENTIFIER
  /\ core_commit_shas = SomeShas({"abc"})
  /\ github_data.commits = ExampleCommits
  /\ OriginalPairs = <<<<"alice", 1>>>>
  /\ metrics["contributor"]["core_merge_commit_authors_count"] = 2
  /\ metrics["contributor"]["knots_contributors_only_merging_core"] = 1

\* the authors with at least one UPSTREAM_MERGED commit
UpstreamMergedAuthors ==
  {Identity(github_data.commits[i]) : i \in AttributedMerged}

\* the authors with at least one ORIGINAL commit
OriginalAuthors ==
  {Identity(github_data.commits[i]) : i \in Attributed \ AttributedMerged}

\* C16: for the fork, knots_contributors_only_merging_core is the number of
\* authors with an UPSTREAM_MERGED commit and no ORIGINAL commit, and
\* knots_contributors_with_original_work is the number of authors with an
\* ORIGINAL commit
C16_MergeOnlyAndOriginalAuthorCounts ==
  (ContributorDone /\ repo_name = KNOTS_REPO_IDENTIFIER) =>
    LET contributor == metrics["contributor"]
    IN  /\ contributor["knots_contributors_only_merging_core"]
             = Cardinality(UpstreamMergedAuthors \ OriginalAuthors)
        /\ contributor["knots_contributors_with_original_work"]
             = Cardinality(OriginalAuthors)

\* C16 witness: the fork has one author with both an upstream-merged and an
\* original commit and one author with upstream-merged commits only
C16_Witness ==
  /\ ContributorDone
  /\ repo_name = KNOTS_REPO_IDENTIFIER
  /\ Cardinality(UpstreamMergedAuthors \cap OriginalAuthors) = 1
  /\ Cardinality(UpstreamMergedAuthors \ OriginalAuthors) = 1
  /\ metrics["contributor"]["knots_contributors_only_merging_core"] = 1
  /\ metrics["contributor"]["knots_contributors_with_original_work"] = 1

\* the position at which an author first occurs in a sequence of authors
FirstSeen(authors, author) ==
  CHOOSE i \in DOMAIN authors :
    authors[i] = author /\ \A j \in 1..(i - 1) : authors[j] # author

\* pairs is sorted by count descending, with the pairs of one count in the
\* order in which their authors first occur in the sequence authors
IsStableDescending(pairs, authors) ==
  /\ \A i \in DOMAIN pairs : \E k \in DOMAIN authors : authors[k] = pairs[i][1]
  /\ \A i, j \in DOMAIN pairs :
       i < j =>
         /\ pairs[i][2] >= pairs[j][2]
         /\ pairs[i][2] = pairs[j][2] =>
              FirstSeen(authors, pairs[i][1]) < FirstSeen(authors, pairs[j][1])

\* the authors of the commits at the given positions, in commit order
AuthorsInOrder(positions) ==
  LET Chosen(i) == i \in positions
      chosen == SelectSeq([i \in DOMAIN github_data.commits |-> i], Chosen)
  IN  [k \in DOMAIN chosen |-> Identity(github_data.commits[chosen[k]])]

\* the logins of the forge's contributor list, in list order
ContributorLogins ==
  [i \in DOMAIN github_data.contributors |-> github_data.contributors[i].login]

\* the list a non-fork repository's commit authors are handed to
\* calculate_bus_factor in (contributor.py:142, 146)
CoreLikeContribByCommits ==
  SortByCountDesc(FoldedCounters.non_knots_author_commit_counts)

\* C17: every distribution the aggregator emits and every list it hands to
\* calculate_bus_factor (the forge's contributor view, the fork's
\* original-work distribution, a non-fork repository's commit-author
\* distribution, and their top-10 prefixes) is sorted by count descending,
\* authors of equal count staying in the order in which they first occur
\* among the contributions folded into that distribution
C17_DistributionsSortedStableDescending ==
  ContributorDone =>
    LET contributor == metrics["contributor"]
        by_commits == contributor["contributors_by_commits"]
    IN  /\ IsStableDescending(by_commits, ContributorLogins)
        /\ Len(by_commits) = Len(github_data.contributors)
        /\ contributor["top_contributors"] = Take(by_commits, 10)
        /\ IF repo_name = KNOTS_REPO_IDENTIFIER
           THEN github_data.commits # <<>> =>
                  /\ IsStableDescending(OriginalPairs,
                                        AuthorsInOrder(Attributed \ AttributedMerged))
                  /\ contributor["knots_top_original_contributors"]
                       = Take(OriginalPairs, 10)
           ELSE IsStableDescending(CoreLikeContribByCommits,
                                   AuthorsInOrder(AttributedCounted))

\* C17 witness: the fork's emitted distributions both hold two authors of
\* equal count, in first-seen order, after an author of a larger count
C17_Witness ==
  /\ ContributorDone
  /\ repo_name = KNOTS_REPO_IDENTIFIER
  /\ metrics["contributor"]["contributors_by_commits"]
       = <<<<"alice", 50>>, <<"carol", 20>>, <<"bob", 20>>>>
  /\ OriginalPairs = <<<<"bob", 1>>, <<"alice", 1>>>>

\* the smallest integer that is at least 0.8 * n
CeilFourFifths(n) == (4 * n + 4) \div 5

\* C18: the bus factor of N >= 1 contributors with one and the same positive
\* count is ceil(0.8 * N), hence 1 for a single contributor; the bus factor
\* of an empty distribution and of a distribution whose total is 0 is 0
C18_BusFactorOfEqualContributors ==
  ("bus_factor" \in DOMAIN results) =>
    LET n == Len(values)
        bus_factor == results["bus_factor"]
    IN  /\ (n >= 1 /\ values[1] > 0 /\ \A i \in 1..n : values[i] = values[1]) =>
             bus_factor = CeilFourFifths(n)
        /\ (n = 1 /\ values[1] > 0) => bus_factor = 1
        /\ (n = 0 \/ SumSeq(values) = 0) => bus_factor = 0

\* C18 witness: the bus factor of five contributors with three commits each
\* is 4, which is not the number of contributors
C18_Witness ==
  /\ "bus_factor" \in DOMAIN results
  /\ values = <<3, 3, 3, 3, 3>>
  /\ results["bus_factor"] = 4

\* the distribution of the counts flat is at least as flat as that of the
\* counts other: as many contributors, the same total, and no top-k sum of
\* its descending arrangement above the corresponding top-k sum of the other
IsFlatterThan(flat, other) ==
  /\ Len(flat) = Len(other)
  /\ SumSeq(flat) = SumSeq(other)
  /\ LET flat_pairs == ContributorsByCommits(flat)
         other_pairs == ContributorsByCommits(other)
     IN  \A k \in 1..Len(flat) : PrefixSum(flat_pairs, k) <= PrefixSum(other_pairs, k)

\* C19: the bus factor does not decrease as the distribution flattens: the
\* bus factor of a distribution is at least that of every distribution of
\* the same size and total than which it is flatter
C19_BusFactorMonotoneInFlatness ==
  ("bus_factor" \in DOMAIN results) =>
    \A other \in ValueLists :
      IsFlatterThan(values, other) =>
        results["bus_factor"] >= calculate_bus_factor(ContributorsByCommits(other))

\* C19 witness: five contributors with one commit each have bus factor 4,
\* and the same five commits spread as 3, 1, 1, 0, 0 have the smaller bus
\* factor 2
C19_Witness ==
  /\ "bus_factor" \in DOMAIN results
  /\ values = <<1, 1, 1, 1, 1>>
  /\ <<3, 1, 1, 0, 0>> \in ValueLists
  /\ IsFlatterThan(values, <<3, 1, 1, 0, 0>>)
  /\ results["bus_factor"] = 4
  /\ calculate_bus_factor(ContributorsByCommits(<<3, 1, 1, 0, 0>>)) = 2

\* C20: the Gini coefficient, as an exact rational, of n > 1 non-negative
\* values is 0 when the values are all equal and positive, is 1 - 1/n when
\* exactly one of them is not 0, and is never below 0 or above 1 - 1/n; for
\* every list it lies in [0, 1]
C20_GiniRange ==
  ("gini" \in DOMAIN results) =>
    LET n == Len(values)
        gini == results["gini"]
        nonzero == {i \in 1..n : values[i] # 0}
    IN  /\ RatLeq(<<0, 1>>, gini)
        /\ RatLeq(gini, <<1, 1>>)
        /\ n > 1 =>
             /\ RatLeq(gini, Rat(n - 1, n))
             /\ (values[1] > 0 /\ \A i \in 1..n : values[i] = values[1]) =>
                  gini = <<0, 1>>
             /\ Cardinality(nonzero) = 1 => gini = Rat(n - 1, n)

\* C20 witness: the Gini coefficient of three values of which only the
\* middle one is not 0 is 2/3
C20_Witness ==
  /\ "gini" \in DOMAIN results
  /\ Len(values) = 3
  /\ values[1] = 0 /\ values[2] > 0 /\ values[3] = 0
  /\ results["gini"] = <<2, 3>>

(***************************************************************************)
(* Specification SpecCalls: the classifier, the score mappings and the     *)
(* other pure functions called on their own.  `pc` names the function's    *)
(* argument held in `values`; `results` collects what the calls return.    *)
(***************************************************************************)
\* the parts of an upstream pull-request merge message
PhraseHead ==
  <<"M", "e", "r", "g", "e", " ", "p", "u", "l", "l", " ", "r", "e", "q", "u", "e", "s", "t", " ", "#">>
PhraseTail ==
  <<" ", "f", "r", "o", "m", " ", "b", "i", "t", "c", "o", "i", "n", "/", "b", "i", "t", "c", "o", "i", "n">>
MsgRevertPrefix ==
  <<"R", "e", "v", "e", "r", "t", " ", "\"">>
MsgLinePrefix ==
  <<"k", "n", "o", "t", "s", "\n">>
MsgBranchSuffix ==
  <<"/", "p", "r", "-", "b", "r", "a", "n", "c", "h">>
MsgBodySuffix ==
  <<"\n", "\n", "b", "o", "d", "y">>
LiteralDigitClass ==
  <<"\\", "d", "+">>

\* str.upper() of one character
UpperChar(c) ==
  IF \E u \in DOMAIN UpperToLower : UpperToLower[u] = c
  THEN CHOOSE u \in DOMAIN UpperToLower : UpperToLower[u] = c
  ELSE c

\* str.upper()
Upper(s) == [i \in DOMAIN s |-> UpperChar(s[i])]

DigitStrings == {<<"7">>, <<"1", "2", "3">>, <<"3", "1", "4", "1", "5">>}

\* messages with the pull-request merge phrasing at the start, inside and at
\* the end, in the three letter cases, and the same with the text of the
\* pattern itself in place of the digits
PullRequestMessages ==
  UNION {{m, Lower(m), Upper(m)} :
           m \in {prefix \o PhraseHead \o number \o PhraseTail \o suffix :
                    prefix \in {<<>>, MsgRevertPrefix, MsgLinePrefix},
                    number \in DigitStrings \cup {LiteralDigitClass},
                    suffix \in {<<>>, MsgBranchSuffix, MsgBodySuffix}}}

Messages ==
  PullRequestMessages
    \cup {MsgRemoteTracking, MsgAddRpc, MsgMergeCoreRef, MsgWalletFix, MsgMergePullRequest,
          MsgSyncUpper, MsgMergeBranchOf, MsgRevertMergeBranchOf, MsgLongDescriptive}

\* commits.py:22-32
temp_is_core_merge_commit(commit_message) ==
  LET lowered == Lower(commit_message)
  IN  \/ \E i \in DOMAIN core_merge_patterns_lowered :
            Contains(core_merge_patterns_lowered[i], lowered)
      \/ MatchesMergeBranchOf(commit_message)

\* hours from creation to merge on both sides of every breakpoint of the
\* velocity score
MergeHours == {0, 12, 24, 25, 96, 168, 169, 444, 720, 721, 1080, 1410, 1440, 2000}

MergedAfter(number, hours) ==
  PullRequest(number, "closed", TRUE, 100, 100 + hours, 100 + hours, "alice", "bob", "m1")

\* one or two merged pull requests, alone or next to an open and a closed,
\* unmerged one
LifecyclePullRequestLists ==
  LET open == PullRequest(8, "open", FALSE, 5, NoDate, NoDate, "bob", "", "")
      unmerged == PullRequest(9, "closed", FALSE, 5, NoDate, 30, "bob", "", "")
  IN  {<<open>>, <<unmerged>>, <<open, unmerged>>}
        \cup {<<MergedAfter(1, h)>> : h \in MergeHours}
        \cup {<<MergedAfter(1, h[1]), open, MergedAfter(2, h[2])>> :
                h \in MergeHours \X MergeHours}

\* hours to the first response on both sides of every breakpoint of the
\* response scores
ResponseHours == {0, 1, 2, 3, 13, 24, 25, 48, 72, 73, 120, 168, 169, 500}

\* a closed issue commented `hours` after it was opened
AnsweredAfter(hours) == Issue("closed", 100, 100 + hours, 100 + hours, 1, <<>>)

\* one or two answered issues, alone or next to an open issue nobody
\* commented on, fresh or stale
ResponsivenessIssueLists ==
  LET fresh == Issue("open", Now - 10, Now - 10, NoDate, 0, <<>>)
      stale == Issue("open", 0, 0, NoDate, 0, <<>>)
  IN  {<<fresh>>, <<stale>>}
        \cup {<<AnsweredAfter(h)>> : h \in ResponseHours}
        \cup {<<AnsweredAfter(h[1]), AnsweredAfter(h[2])>> : h \in ResponseHours \X ResponseHours}
        \cup {<<AnsweredAfter(h), fresh, stale>> : h \in ResponseHours}

\* a pull request opened at hour 100
OpenedPullRequest(number) ==
  PullRequest(number, "open", FALSE, 100, NoDate, NoDate, "alice", "", "")

\* one or two pull requests first reviewed after the given hours, the first
\* of them reviewed a second time later; a pull request whose only review
\* carries no date; a pull request nobody reviewed
ReviewedPullRequestLists ==
  LET pulls == <<OpenedPullRequest(1), OpenedPullRequest(2), OpenedPullRequest(3)>>
      Reviews(h) == <<Review("bob", "COMMENTED", 100 + h + 600),
                      Review("carol", "APPROVED", 100 + h)>>
      undated == <<Review("bob", "COMMENTED", NoDate)>>
  IN  {[pull_requests |-> pulls, pr_reviews |-> EmptyDict],
       [pull_requests |-> pulls, pr_reviews |-> (3 :> undated)]}
        \cup {[pull_requests |-> pulls, pr_reviews |-> (1 :> Reviews(h) @@ 3 :> undated)] :
                h \in ResponseHours}
        \cup {[pull_requests |-> pulls,
               pr_reviews |-> (1 :> Reviews(h[1]) @@ 2 :> Reviews(h[2]))] :
                h \in ResponseHours \X ResponseHours}

\* pull requests for the self-merge count: merged by the author, by someone
\* else, by nobody the forge names (with and without a merge commit), not
\* merged, and without a known author
SelfMergePullRequests ==
  {PullRequest(1, "closed", TRUE, 0, 10, 10, "alice", "alice", "m1"),
   PullRequest(2, "closed", TRUE, 0, 10, 10, "alice", "bob", "m1"),
   PullRequest(3, "closed", TRUE, 0, 10, 10, "alice", "", "m1"),
   PullRequest(4, "closed", TRUE, 0, 10, 10, "alice", "", "m2"),
   PullRequest(5, "closed", TRUE, 0, 10, 10, "alice", "", ""),
   PullRequest(6, "closed", FALSE, 0, NoDate, 10, "alice", "alice", ""),
   PullRequest(7, "open", FALSE, 0, NoDate, NoDate, "alice", "", "m1"),
   PullRequest(8, "closed", TRUE, 0, 10, 10, "", "", "m1")}

\* what the forge knows of the merge commits: nothing, or the author and the
\* committer of m1 (m2 is never found)
CommitDetails ==
  {EmptyDict,
   [m1 |-> [author |-> "alice", committer |-> "web-flow"]],
   [m1 |-> [author |-> "bob", committer |-> "alice"]],
   [m1 |-> [author |-> "bob", committer |-> "carol"]]}

SelfMergeInputs ==
  {[pull_requests |-> pull_requests, repo_name |-> repo, commit_details |-> details] :
     pull_requests \in BoundedSeq(SelfMergePullRequests, 2),
     repo \in {"", KNOTS_REPO_IDENTIFIER},
     details \in CommitDetails}

MaxDatedCommits == 4

\* commit times in hours: two on the first day, one a day, three weeks and
\* twelve weeks later, and no timestamp
CommitHours == {0, 5, 24, 480, 2000, NoDate}

\* commit lists for the frequency calculation, in any order of their times
FrequencyCommitLists ==
  {[i \in DOMAIN hours |-> Commit("abc", "alice", "Alice", MsgWalletFix, hours[i])] :
     hours \in BoundedSeq(CommitHours, MaxDatedCommits)}

\* contributor metrics with every bus factor up to past the last threshold
\* and contributor counts on both sides of every adjustment threshold
ContributorMetricsInputs ==
  {[bus_factor |-> bus_factor, total_contributors |-> total] :
     bus_factor \in 0..12,
     total \in {0, 1, 2, 3, 4, 5, 49, 50, 51, 99, 100, 101, 150}}

\* group sizes, empty groups among them
GroupSizeLists == BoundedSeq(0..MaxCount, MaxValues)

InitCalls ==
  /\ client = NoClient
  /\ repo_name = ""
  /\ github_data = GithubData(<<>>, <<>>, NoPullRequests, <<>>, <<>>, EmptyDict)
  /\ git_data = NoGitData
  /\ core_commit_shas = NoneShas
  /\ raising = {}
  /\ metrics = EmptyDict
  /\ scores = EmptyDict
  /\ comparison = NoComparison
  /\ results = EmptyDict
  /\ \/ pc = "commit_message" /\ values \in Messages
     \/ pc = "pull_requests" /\ values \in LifecyclePullRequestLists
     \/ pc = "issues" /\ values \in ResponsivenessIssueLists
     \/ pc = "reviews" /\ values \in ReviewedPullRequestLists
     \/ pc = "self_merge" /\ values \in SelfMergeInputs
     \/ pc = "commits" /\ values \in FrequencyCommitLists
     \/ pc = "contributor_metrics" /\ values \in ContributorMetricsInputs
     \/ pc = "groups" /\ values \in GroupSizeLists

\* contributor.py:19, as called at lines 107 and 117
IsCoreMergeCommit ==
  /\ pc = "commit_message"
  /\ "is_core_merge_commit" \notin DOMAIN results
  /\ results' = Update(results, [is_core_merge_commit |-> is_core_merge_commit(values)])
  /\ UNCHANGED <<repo_name, github_data, git_data, core_commit_shas, raising, metrics,
                 scores, pc, values, comparison, client>>

\* commits.py:22, a call of the module-level copy
TempIsCoreMergeCommit ==
  /\ pc = "commit_message"
  /\ "temp_is_core_merge_commit" \notin DOMAIN results
  /\ results' = Update(results,
                  [temp_is_core_merge_commit |-> temp_is_core_merge_commit(values)])
  /\ UNCHANGED <<repo_name, github_data, git_data, core_commit_shas, raising, metrics,
                 scores, pc, values, comparison, client>>

\* pull_requests.py:161-212
CalculatePrLifecycleMetrics ==
  /\ pc = "pull_requests"
  /\ results = EmptyDict
  /\ results' = calculate_pr_lifecycle_metrics(values)
  /\ UNCHANGED <<repo_name, github_data, git_data, core_commit_shas, raising, metrics,
                 scores, pc, values, comparison, client>>

\* issues.py:85-174
CalculateIssueResponsiveness ==
  /\ pc = "issues"
  /\ results = EmptyDict
  /\ results' = calculate_issue_responsiveness(values, Now)
  /\ UNCHANGED <<repo_name, github_data, git_data, core_commit_shas, raising, metrics,
                 scores, pc, values, comparison, client>>

\* code_review.py:223-288
CalculateReviewResponsivenessMetrics ==
  /\ pc = "reviews"
  /\ results = EmptyDict
  /\ results' = calculate_review_responsiveness_metrics(values.pull_requests,
                                                        values.pr_reviews)
  /\ UNCHANGED <<repo_name, github_data, git_data, core_commit_shas, raising, metrics,
                 scores, pc, values, comparison, client>>

\* code_review.py:291-347
CalculateSelfMergeMetrics ==
  /\ pc = "self_merge"
  /\ results = EmptyDict
  /\ results' = calculate_self_merge_metrics(values.pull_requests, values.repo_name,
                                             values.commit_details)
  /\ UNCHANGED <<repo_name, github_data, git_data, core_commit_shas, raising, metrics,
                 scores, pc, values, comparison, client>>

\* commits.py:107-175
CalculateCommitFrequency ==
  /\ pc = "commits"
  /\ results = EmptyDict
  /\ results' = calculate_commit_frequency(values)
  /\ UNCHANGED <<repo_name, github_data, git_data, core_commit_shas, raising, metrics,
                 scores, pc, values, comparison, client>>

\* corevsknots/analyze.py:321-346
ScoreContributor ==
  /\ pc = "contributor_metrics"
  /\ "contributor" \notin DOMAIN results
  /\ results' = Update(results,
                  [contributor |->
                     ContributorScore(values,
                       ScoringBusFactor([contributor |-> values], CORE_REPO_IDENTIFIER))])
  /\ UNCHANGED <<repo_name, github_data, git_data, core_commit_shas, raising, metrics,
                 scores, pc, values, comparison, client>>

\* analyze.py (first generation):264-289
LegacyScoreContributor ==
  /\ pc = "contributor_metrics"
  /\ "legacy_contributor" \notin DOMAIN results
  /\ results' = Update(results,
                  [legacy_contributor |->
                     ContributorScore(values,
                       LegacyScoringBusFactor([contributor |-> values]))])
  /\ UNCHANGED <<repo_name, github_data, git_data, core_commit_shas, raising, metrics,
                 scores, pc, values, comparison, client>>

\* contributor.py:179, 189
CalculateDiversityScore ==
  /\ pc = "groups"
  /\ "organization_diversity" \notin DOMAIN results
  /\ results' = [organization_diversity |-> calculate_diversity_score(values)]
  /\ UNCHANGED <<repo_name, github_data, git_data, core_commit_shas, raising, metrics,
                 scores, pc, values, comparison, client>>

NextCalls ==
  \/ IsCoreMergeCommit
  \/ TempIsCoreMergeCommit
  \/ CalculatePrLifecycleMetrics
  \/ CalculateIssueResponsiveness
  \/ CalculateReviewResponsivenessMetrics
  \/ CalculateSelfMergeMetrics
  \/ CalculateCommitFrequency
  \/ ScoreContributor
  \/ LegacyScoreContributor
  \/ CalculateDiversityScore

SpecCalls == InitCalls /\ [][NextCalls]_vars

(***************************************************************************)
(* Specification SpecPaginate: one call of                                 *)
(* GitHubAPIClient._paginate_request                                       *)
(* (corevsknots/fetch/github_api.py:112-175).  `values` holds the params   *)
(* the caller hands in, `client` the locals of the call and the log of the *)
(* pages it asked _make_request for, `results` what the call returns.     *)
(* What _make_request gives for a page is the server's choice: a JSON      *)
(* list, a JSON object, another JSON value, or an exception.               *)
(***************************************************************************)
\* github_api.py:170: pagination stops once the page number exceeds this
PageLimit == 30

\* github_api.py:131-132
DefaultPerPage == 100

\* a JSON object of a response: the sequence of its (key, value) pairs
JsonObject(key, value) == <<<<key, value>>>>

EmptyObject == <<>>

NotFoundObject == JsonObject("message", "Not Found")

ListResponse(items) == [kind |-> "list", value |-> items]

DictResponse(fields) == [kind |-> "dict", value |-> fields]

\* a JSON value that is neither a list nor an object
OtherResponse == [kind |-> "other", value |-> <<>>]

\* _make_request raises instead of returning
Raised(exception) == [kind |-> exception, value |-> <<>>]

\* the n items of a page, each naming its page and its place on it
PageItems(page, n) ==
  [i \in 1..n |-> JsonObject("id", ToString(page) \o "-" \o ToString(i))]

\* an empty, a short and a full page, and on the first page one longer than
\* asked for
PageLengths(page, per_page) ==
  {n \in {0, 1, per_page - 1, per_page} : n >= 0}
    \cup (IF page = 1 THEN {per_page + 1} ELSE {})

Responses(page, per_page) ==
  {ListResponse(PageItems(page, n)) : n \in PageLengths(page, per_page)}
    \cup {DictResponse(EmptyObject), DictResponse(NotFoundObject),
          OtherResponse, Raised("HTTPError"), Raised("Exception")}

\* the params a caller passes: none, or a page size
ParamsOptions == {EmptyDict, [per_page |-> 1], [per_page |-> 2], [per_page |-> 3]}

\* github_api.py:128-136: the locals before the loop
PaginateLocals(params) ==
  [params |-> IF "per_page" \in DOMAIN params
              THEN params
              ELSE Update(params, [per_page |-> DefaultPerPage]),
   all_items |-> <<>>,
   page |-> 1,
   more_pages |-> TRUE,
   requests |-> <<>>]

\* github_api.py:145-166: whether the loop goes on after a page
MorePagesAfter(response_data, per_page) ==
  /\ response_data.kind = "list"
  /\ response_data.value # <<>>
  /\ ~(Len(response_data.value) < per_page)

\* github_api.py:145-158: what a page adds to all_items
ItemsAdded(response_data) ==
  CASE response_data.kind = "list" -> response_data.value
    [] response_data.kind = "dict" /\ response_data.value # EmptyObject ->
         <<response_data.value>>
    [] OTHER -> <<>>

\* the limit taken one page later
MutPageLimitOffByOne(page) == page > PageLimit + 1

\* github_api.py:170-172
ReachedPageLimit(page) == page > PageLimit

\* github_api.py:139-172: one pass through the loop body, _make_request
\* having answered response_data
PaginateIteration(locals, response_data) ==
  LET params == Update(locals.params, [page |-> locals.page])
      more_pages == MorePagesAfter(response_data, params.per_page)
      page == IF more_pages THEN locals.page + 1 ELSE locals.page
  IN  [params |-> params,
       all_items |-> locals.all_items \o ItemsAdded(response_data),
       page |-> page,
       more_pages |-> more_pages /\ ~ReachedPageLimit(page),
       requests |-> Append(locals.requests,
                           [page |-> params.page, response_data |-> response_data])]

InitPaginate ==
  /\ client = NoClient
  /\ values \in ParamsOptions
  /\ pc = "called"
  /\ results = EmptyDict
  /\ repo_name = ""
  /\ github_data = GithubData(<<>>, <<>>, NoPullRequests, <<>>, <<>>, EmptyDict)
  /\ git_data = NoGitData
  /\ core_commit_shas = NoneShas
  /\ raising = {}
  /\ metrics = EmptyDict
  /\ scores = EmptyDict
  /\ comparison = NoComparison

\* github_api.py:128-137
PaginateEnter ==
  /\ pc = "called"
  /\ client' = PaginateLocals(values)
  /\ pc' = "looping"
  /\ UNCHANGED <<repo_name, github_data, git_data, core_commit_shas, raising, metrics,
                 scores, values, results, comparison>>

\* github_api.py:139-172
PaginateFetchPage ==
  /\ pc = "looping"
  /\ client.more_pages
  /\ \E response_data \in Responses(client.page, client.params.per_page) :
       client' = PaginateIteration(client, response_data)
  /\ UNCHANGED <<repo_name, github_data, git_data, core_commit_shas, raising, metrics,
                 scores, pc, values, results, comparison>>

\* github_api.py:174-175
PaginateReturn ==
  /\ pc = "looping"
  /\ ~client.more_pages
  /\ results' = [all_items |-> client.all_items]
  /\ pc' = "returned"
  /\ UNCHANGED <<repo_name, github_data, git_data, core_commit_shas, raising, metrics,
                 scores, values, comparison, client>>

NextPaginate ==
  \/ PaginateEnter
  \/ PaginateFetchPage
  \/ PaginateReturn

\* the call runs on its own thread of control and every request it makes is
\* answered or fails
SpecPaginate == InitPaginate /\ [][NextPaginate]_vars /\ WF_vars(NextPaginate)

(***************************************************************************)
(* Specification SpecCache: calls of GitHubAPIClient._make_request         *)
(* (corevsknots/fetch/github_api.py:62-110) on a client whose responses    *)
(* go through the file cache (fetch/cache.py).  `values` holds the         *)
(* constructor's arguments, `client` the client with its cache files and   *)
(* the clock, `results` the last call: its key, what it returned or        *)
(* raised and whether it sent an HTTP request.  The server answers each    *)
(* request as it likes; time passes between calls.                         *)
(***************************************************************************)
\* cache.py:33
SecondsPerHour == 3600

\* the clock advances by this many seconds at a time
TickSeconds == 1800

\* the clock stops after this many advances
MaxTicks == 5

\* the (url, params) pairs asked for, as cache keys (github_api.py:78-79)
CacheKeys == {"/repos/bitcoin/bitcoin_None", "/repos/bitcoin/bitcoin/pulls_{'page': 1}"}

\* Python's None
NoData == [kind |-> "none", value |-> <<>>]

\* no cache file
NoEntry == [exists |-> FALSE, timestamp |-> 0, data |-> NoData]

\* cache.py:105: the content of a cache file
CacheEntry(timestamp, data) == [exists |-> TRUE, timestamp |-> timestamp, data |-> data]

\* what the server answers: a list of one item in one of two versions, an
\* empty list, an empty object, or an error status
ServerResponses ==
  {ListResponse(PageItems(version, 1)) : version \in 1..2}
    \cup {ListResponse(<<>>), DictResponse(EmptyObject), Raised("HTTPError")}

\* Python's truth value of a response
TruthyResponse(data) == data.kind # "none" /\ data.value # <<>>

\* cache.py:64-93
cache_get(cache, key, now, expiry_seconds) ==
  IF ~cache[key].exists THEN NoData
  ELSE IF now - cache[key].timestamp > expiry_seconds THEN NoData
  ELSE cache[key].data

\* cache.py:95-114, the cache directory being writable
cache_set(cache, key, value, now) == [cache EXCEPT ![key] = CacheEntry(now, value)]

\* github_api.py:29-60 and cache.py:24-37: the client after construction,
\* with an empty cache directory
NewClient(use_cache, cache_expiry) ==
  [use_cache |-> use_cache,
   expiry_seconds |-> cache_expiry * SecondsPerHour,
   cache |-> [key \in CacheKeys |-> NoEntry],
   now |-> 0]

\* github_api.py:81-87: whether the call is answered from the cache
AnsweredFromCache(self, cached_response) ==
  self.use_cache /\ TruthyResponse(cached_response)

\* github_api.py:62-110: the call's outcome, whether it sent an HTTP request
\* and the client after it; `response` is what the server would answer
make_request(self, cache_key, response) ==
  LET cached_response ==
        IF self.use_cache
        THEN cache_get(self.cache, cache_key, self.now, self.expiry_seconds)
        ELSE NoData
  IN  IF AnsweredFromCache(self, cached_response)
      THEN [outcome |-> cached_response, http_request |-> FALSE, client |-> self]
      ELSE IF response.kind = "HTTPError"
      THEN [outcome |-> response, http_request |-> TRUE, client |-> self]
      ELSE [outcome |-> response, http_request |-> TRUE,
            client |-> IF self.use_cache
                       THEN [self EXCEPT !.cache = cache_set(@, cache_key, response,
                                                             self.now)]
                       ELSE self]

\* the expiry, in hours, the client is constructed with
CacheExpiryOptions == {0, 1}

InitCache ==
  /\ values \in [use_cache : BOOLEAN, cache_expiry : CacheExpiryOptions]
  /\ client = NewClient(values.use_cache, values.cache_expiry)
  /\ pc = "constructed"
  /\ results = EmptyDict
  /\ repo_name = ""
  /\ github_data = GithubData(<<>>, <<>>, NoPullRequests, <<>>, <<>>, EmptyDict)
  /\ git_data = NoGitData
  /\ core_commit_shas = NoneShas
  /\ raising = {}
  /\ metrics = EmptyDict
  /\ scores = EmptyDict
  /\ comparison = NoComparison

\* github_api.py:62-110
MakeRequest ==
  /\ \E cache_key \in CacheKeys, response \in ServerResponses :
       LET call == make_request(client, cache_key, response)
       IN  /\ client' = call.client
           /\ results' = [cache_key |-> cache_key, outcome |-> call.outcome,
                          http_request |-> call.http_request]
  /\ pc' = "called"
  /\ UNCHANGED <<repo_name, github_data, git_data, core_commit_shas, raising, metrics,
                 scores, values, comparison>>

\* time passes between two calls
Tick ==
  /\ client.now < MaxTicks * TickSeconds
  /\ client' = [client EXCEPT !.now = @ + TickSeconds]
  /\ UNCHANGED <<repo_name, github_data, git_data, core_commit_shas, raising, metrics,
                 scores, pc, values, results, comparison>>

NextCache ==
  \/ MakeRequest
  \/ Tick

SpecCache == InitCache /\ [][NextCache]_vars

(***************************************************************************)
(* Claims C21 to C30.                                                      *)
(***************************************************************************)
IsDigit(c) == c \in {"0", "1", "2", "3", "4", "5", "6", "7", "8", "9"}

\* the message holds, in any letter case, "Merge pull request #", one or more
\* digits and " from bitcoin/bitcoin"
HasPullRequestMergePhrasing(m) ==
  LET lowered == Lower(m)
      head == Lower(PhraseHead)
      tail == Lower(PhraseTail)
  IN  \E i \in 1..Len(m), j \in 1..Len(m) :
        /\ i + Len(head) < j
        /\ j + Len(tail) - 1 <= Len(m)
        /\ SubSeq(lowered, i, i + Len(head) - 1) = head
        /\ \A k \in (i + Len(head))..(j - 1) : IsDigit(lowered[k])
        /\ SubSeq(lowered, j, j + Len(tail) - 1) = tail

\* C21: is_core_merge_commit, and its copy in the commit calculator, return
\* true for every message that holds "Merge pull request #<digits> from
\* bitcoin/bitcoin", in any letter case and at any position
C21_PullRequestMergePhrasingIsRecognised ==
  (pc = "commit_message" /\ HasPullRequestMergePhrasing(values)) =>
    /\ ("is_core_merge_commit" \in DOMAIN results) => results["is_core_merge_commit"]
    /\ ("temp_is_core_merge_commit" \in DOMAIN results) =>
         results["temp_is_core_merge_commit"]

\* the commits the frequency calculation is handed
FrequencyCommits ==
  original_commits_for_repo(github_data.commits, repo_name, core_commit_shas)

HasDate(commit) == commit.date # NoDate

\* commits per day over the commits that carry a timestamp: their number over
\* the inclusive day span between the first and the last of them
DatedCommitsPerDay(commits) ==
  LET dates == {commits[i].date : i \in {k \in DOMAIN commits : HasDate(commits[k])}}
      span == ((SetMax(dates) - SetMin(dates)) \div HoursPerDay) + 1
  IN  IF dates = {} THEN <<0, 1>>
      ELSE Rat(Cardinality({k \in DOMAIN commits : HasDate(commits[k])}), span)

\* C22: a commit without a timestamp is skipped by the frequency calculation:
\* the rates and the category are those of the commits that carry one, and
\* the calculation still returns
C22_UndatedCommitIsSkipped ==
  (CommitDone /\ FrequencyCommits # <<>>) =>
    LET dated == SelectSeq(FrequencyCommits, HasDate)
        per_day == DatedCommitsPerDay(FrequencyCommits)
    IN  /\ "commit_frequency" \in DOMAIN metrics["commit"]
        /\ metrics["commit"]["commits_per_day"]
             = (IF dated = <<>> THEN 0 ELSE Round2(per_day))
        /\ metrics["commit"]["commit_frequency"]
             = calculate_commit_frequency(dated)["commit_frequency"]

\* the merged pull requests of the list the lifecycle calculation was handed
MergedIndices == {i \in DOMAIN values : values[i].merged}

\* the average hours from creation to merge over the merged pull requests
AverageHoursToMerge ==
  LET hours == [i \in DOMAIN values |-> values[i].merged_at - values[i].created_at]
  IN  Average(hours, MergedIndices)

\* 10 up to 24 hours, 5 + (168 - h)/144 * 5 up to 168 hours,
\* 1 + (720 - h)/552 * 4 up to 720 hours, max(0, 1 - (h - 720)/720) beyond
VelocityBreakpoints(h) ==
  IF RatLeq(h, <<24, 1>>) THEN <<10, 1>>
  ELSE IF RatLeq(h, <<168, 1>>)
  THEN RatAdd(<<5, 1>>, RatMul(RatSub(<<168, 1>>, h), <<5, 144>>))
  ELSE IF RatLeq(h, <<720, 1>>)
  THEN RatAdd(<<1, 1>>, RatMul(RatSub(<<720, 1>>, h), <<4, 552>>))
  ELSE RatMax(<<0, 1>>, RatSub(<<1, 1>>, RatMul(RatSub(h, <<720, 1>>), <<1, 720>>)))

\* C23: the velocity score reported for an average time-to-merge h >= 0 is
\* the breakpoint mapping of h (rounded to tenths as every reported score),
\* 10 for every h from 0 to 24 hours; it is 0 when no pull request was merged
C23_VelocityScoreFollowsBreakpoints ==
  (pc = "pull_requests" /\ "pr_velocity_score" \in DOMAIN results) =>
    /\ (MergedIndices = {}) => results["pr_velocity_score"] = 0
    /\ (MergedIndices # {}) =>
         results["pr_velocity_score"] = Round1(VelocityBreakpoints(AverageHoursToMerge))

\* 10 up to 2 hours, 7 + (24 - h)/22 * 3 up to 24 hours, 3 + (72 - h)/48 * 4
\* up to 72 hours, (168 - h)/96 * 3 up to 168 hours, 0 beyond
ResponseBreakpoints(h) ==
  IF RatLeq(h, <<2, 1>>) THEN <<10, 1>>
  ELSE IF RatLeq(h, <<24, 1>>)
  THEN RatAdd(<<7, 1>>, RatMul(RatSub(<<24, 1>>, h), <<3, 22>>))
  ELSE IF RatLeq(h, <<72, 1>>)
  THEN RatAdd(<<3, 1>>, RatMul(RatSub(<<72, 1>>, h), <<4, 48>>))
  ELSE IF RatLeq(h, <<168, 1>>)
  THEN RatMul(RatSub(<<168, 1>>, h), <<3, 96>>)
  ELSE <<0, 1>>

\* the issues somebody commented on, and the average hours to that response
AnsweredIssues == {i \in DOMAIN values : values[i].comments > 0}

AverageHoursToFirstResponse ==
  Average([i \in DOMAIN values |-> values[i].updated_at - values[i].created_at],
          AnsweredIssues)

\* ten times the share of open issues that are not stale
StaleScore ==
  LET open == {i \in DOMAIN values : values[i].state = "open"}
      stale == {i \in open : ((Now - values[i].updated_at) \div HoursPerDay) > StaleDays}
  IN  IF open = {} THEN <<10, 1>>
      ELSE RatMul(<<10, 1>>, RatSub(<<1, 1>>, Rat(Cardinality(stale), Cardinality(open))))

\* the pull requests with a dated review, and the average hours to the first one
FirstReviewHours ==
  LET reviews == values.pr_reviews
      Times(n) == {reviews[n][i].submitted_at : i \in DOMAIN reviews[n]} \ {NoDate}
      Created(n) ==
        values.pull_requests[CHOOSE i \in DOMAIN values.pull_requests :
                               values.pull_requests[i].number = n].created_at
      timed == {n \in DOMAIN reviews : Times(n) # {}}
  IN  [n \in timed |-> SetMin(Times(n)) - Created(n)]

AverageHoursToFirstReview == Average(FirstReviewHours, DOMAIN FirstReviewHours)

\* C24: with at least one response observed, the first-response score inside
\* the issue responsiveness score (70% of it, next to 30% of the stale score)
\* and the first-review score are the response breakpoint mapping of the
\* average hours h >= 0 to the first response, 10 for every h up to 2 hours
C24_ResponseScoresFollowBreakpoints ==
  /\ (pc = "issues" /\ "responsiveness_score" \in DOMAIN results /\ AnsweredIssues # {}) =>
       results["responsiveness_score"]
         = Round1(RatAdd(RatMul(ResponseBreakpoints(AverageHoursToFirstResponse), <<7, 10>>),
                         RatMul(StaleScore, <<3, 10>>)))
  /\ (/\ pc = "reviews"
      /\ "review_responsiveness_score" \in DOMAIN results
      /\ DOMAIN FirstReviewHours # {}) =>
       results["review_responsiveness_score"]
         = Round1(ResponseBreakpoints(AverageHoursToFirstReview))

\* the merged pull requests of the list the self-merge count was handed
MergedPullRequests == {i \in DOMAIN values.pull_requests :
                         values.pull_requests[i].merged_at # NoDate}

\* the merge commit of a pull request as the lookup returns it: a set with
\* its record, empty when no lookup is possible or the lookup finds nothing
LookedUp(pr) ==
  IF values.repo_name # "" /\ pr.merge_commit_sha \in DOMAIN values.commit_details
  THEN {values.commit_details[pr.merge_commit_sha]}
  ELSE {}

\* author = merger, or merger unknown and the author is the author or the
\* committer of the merge commit looked up
IsSelfMergedByRule(pr) ==
  /\ pr.user # ""
  /\ \/ pr.merged_by = pr.user
     \/ /\ pr.merged_by = ""
        /\ \E commit \in LookedUp(pr) : pr.user \in {commit.author, commit.committer}

DatedIndices == {i \in DOMAIN values : values[i].date # NoDate}

\* whole days from the first to the last commit, both days included
InclusiveDaySpan ==
  LET first == SetMin({values[i].date : i \in DatedIndices})
      last == SetMax({values[i].date : i \in DatedIndices})
  IN  ((last - first) \div HoursPerDay) + 1

\* commits per day, week (7 days) and month (30 days) over that span
PerDay == Rat(Len(values), InclusiveDaySpan)

PerWeek == RatMul(PerDay, <<7, 1>>)

PerMonth == RatMul(PerDay, <<30, 1>>)

\* C26: the frequency category is very_active iff commits/day > 3, otherwise
\* active iff commits/day > 1, otherwise moderate iff commits/week > 1,
\* otherwise low iff commits/month > 1, otherwise inactive, the rates being
\* the number of commits handed in over the inclusive day span between the
\* first and the last commit (a week is 7 days, a month 30)
C26_FrequencyCategoryThresholds ==
  (pc = "commits" /\ results # EmptyDict /\ DatedIndices # {}) =>
    LET category == results["commit_frequency"]
    IN  /\ category \in {"very_active", "active", "moderate", "low", "inactive"}
        /\ (category = "very_active") <=> RatLess(<<3, 1>>, PerDay)
        /\ (category = "active") <=> (~RatLess(<<3, 1>>, PerDay) /\ RatLess(<<1, 1>>, PerDay))
        /\ (category = "moderate") <=>
             (~RatLess(<<1, 1>>, PerDay) /\ RatLess(<<1, 1>>, PerWeek))
        /\ (category = "low") <=>
             (~RatLess(<<1, 1>>, PerWeek) /\ RatLess(<<1, 1>>, PerMonth))
        /\ (category = "inactive") <=> ~RatLess(<<1, 1>>, PerMonth)
        /\ results["commits_per_day"] = Round2(PerDay)
        /\ results["commits_per_week"] = Round2(PerWeek)
        /\ results["commits_per_month"] = Round2(PerMonth)

\* C26 witness: two commits three weeks apart, 2/21 a day, under one a week
\* and over one a month, are in the low category
C26_Witness ==
  /\ pc = "commits"
  /\ results # EmptyDict
  /\ Len(values) = 2
  /\ values[1].date = 480 /\ values[2].date = 0
  /\ InclusiveDaySpan = 21
  /\ results["commit_frequency"] = "low"

\* 10 from a bus factor of 10, 8 from 5, 6 from 3, 4 at 2, else 2
BusFactorPoints(bus_factor) ==
  CASE bus_factor >= 10 -> 10
    [] bus_factor \in 5..9 -> 8
    [] bus_factor \in 3..4 -> 6
    [] bus_factor = 2 -> 4
    [] OTHER -> 2

\* +2 from 100 contributors, +1 from 50, -2 up to 3, kept within 0..10
AdjustedForContributors(points, total) ==
  CASE total >= 100 -> Min(10, points + 2)
    [] total \in 50..99 -> Min(10, points + 1)
    [] total <= 3 -> Max(0, points - 2)
    [] OTHER -> points

\* the sub-scores both scorers gave
ContributorSubScores ==
  {results[k] : k \in DOMAIN results \cap {"contributor", "legacy_contributor"}}

\* C27: the contributor sub-score of both scorers is the bus factor's points
\* adjusted for the total number of contributors, and no input with a bus
\* factor and a contributor count at least as large scores lower
C27_ContributorSubScore ==
  (pc = "contributor_metrics") =>
    \A score \in ContributorSubScores :
      /\ score = <<AdjustedForContributors(BusFactorPoints(values.bus_factor),
                                           values.total_contributors), 1>>
      /\ \A other \in ContributorMetricsInputs :
           (/\ other.bus_factor >= values.bus_factor
            /\ other.total_contributors >= values.total_contributors) =>
             RatLeq(score, ContributorScore(other, other.bus_factor))

\* C27 witness: a bus factor of 9 with 100 contributors scores 8 + 2 = 10 in
\* both scorers
C27_Witness ==
  /\ pc = "contributor_metrics"
  /\ values.bus_factor = 9 /\ values.total_contributors = 100
  /\ DOMAIN results = {"contributor", "legacy_contributor"}
  /\ ContributorSubScores = {<<10, 1>>}

\* the groups that have members
NonEmptyGroups == SelectSeq(values, LAMBDA size : size > 0)

\* 0 for no group and for one non-empty group, otherwise the entropy of the
\* proportions over ln(number of non-empty groups), in thousandths
NormalisedEntropy ==
  IF Len(NonEmptyGroups) <= 1 THEN 0
  ELSE RoundScaled(EntropyMicro(NonEmptyGroups), LnMicro[Len(NonEmptyGroups)], 1000)

\* C28: the diversity score is 0 for zero groups and for exactly one
\* non-empty group, otherwise the Shannon entropy of the group-size
\* proportions over ln(number of non-empty groups); it is in [0, 1] and
\* groups of size 0 do not change it
C28_DiversityIsNormalisedEntropy ==
  (pc = "groups" /\ "organization_diversity" \in DOMAIN results) =>
    /\ results["organization_diversity"] \in 0..1000
    /\ results["organization_diversity"] = NormalisedEntropy
    /\ results["organization_diversity"] = calculate_diversity_score(NonEmptyGroups)

\* the page size the call works with
PerPage == IF "per_page" \in DOMAIN values THEN values.per_page ELSE DefaultPerPage

\* a page after which no further page is asked for: its request failed, or
\* it is not a list, or it is empty or shorter than the page size
IsLastPage(request) ==
  \/ request.response_data.kind # "list"
  \/ Len(request.response_data.value) < PerPage

\* the items of the list pages among the first n requests, in page order
RECURSIVE ItemsOfListPages(_)
ItemsOfListPages(n) ==
  IF n = 0 THEN <<>>
  ELSE ItemsOfListPages(n - 1)
         \o (IF client.requests[n].response_data.kind = "list"
             THEN client.requests[n].response_data.value
             ELSE <<>>)

\* the same, a page that is a non-empty object counting as one item
RECURSIVE ItemsOfPages(_)
ItemsOfPages(n) ==
  IF n = 0 THEN <<>>
  ELSE ItemsOfPages(n - 1)
         \o (CASE client.requests[n].response_data.kind = "list" ->
                    client.requests[n].response_data.value
               [] /\ client.requests[n].response_data.kind = "dict"
                  /\ Len(client.requests[n].response_data.value) > 0 ->
                    <<client.requests[n].response_data.value>>
               [] OTHER -> <<>>)

\* pages 1, 2, ... are asked for in order, at most PageLimit of them and
\* none after a last page; the call returns only after a last page or
\* page PageLimit
PagesRequestedInOrder ==
  (pc \in {"looping", "returned"}) =>
    /\ Len(client.requests) <= PageLimit
    /\ \A i \in DOMAIN client.requests :
         /\ client.requests[i].page = i
         /\ i < Len(client.requests) => ~IsLastPage(client.requests[i])
    /\ (pc = "returned") =>
         /\ client.requests # <<>>
         /\ \/ IsLastPage(client.requests[Len(client.requests)])
            \/ Len(client.requests) = PageLimit

EntryBefore == client.cache[results'.cache_key]

\* whether that file is no older than the expiry when the call is made
UnexpiredBefore ==
  /\ EntryBefore.exists
  /\ client.now - EntryBefore.timestamp <= client.expiry_seconds

\* C30: with caching enabled, a call sends an HTTP request only when the
\* cache holds no unexpired entry for its key; every successful response is
\* stored, so a call made while the key's entry is unexpired returns the
\* stored data without an HTTP request, and an expired entry is never
\* returned
C30_CacheAnswersRepeatedCalls ==
  [][(MakeRequest /\ client.use_cache) =>
       /\ results'.http_request => ~UnexpiredBefore
       /\ (results'.http_request /\ results'.outcome.kind # "HTTPError") =>
            client'.cache[results'.cache_key] = CacheEntry(client.now, results'.outcome)
       /\ UnexpiredBefore =>
            /\ ~results'.http_request
            /\ results'.outcome = EntryBefore.data
       /\ ~results'.http_request => UnexpiredBefore]_vars
====
